---- MODULE Spec2Model ----
(***************************************************************************)
(* DLSyncBot: the download queue (queue_manager.py), its URL parser        *)
(* (url_parser.py) and adapters (downloaders/), and the file distribution  *)
(* server (file_server.py) as state machines.                              *)
(*                                                                         *)
(* Both components run on one asyncio event loop: a coroutine runs without *)
(* interruption from one await that really suspends to the next, so each   *)
(* action below is the code between two suspension points.                 *)
(*                                                                         *)
(* SpecQ is the queue and its worker, SpecQReturning the same with a       *)
(* progress callback that never raises, SpecFS the download path of a      *)
(* started file server, SpecLinks the same with GET /info, SpecSrv the     *)
(* file server with its lifecycle, SpecSweep its periodic sweep under      *)
(* fair scheduling, SpecUpload POST /upload on a server with the secret    *)
(* configured, SpecUploadAuth the authorization of uploads, SpecParse      *)
(* URLParser.parse on strings, SpecAdapters the worker with the waits of   *)
(* the adapters on their external work, SpecAdaptersStop the same with     *)
(* stop_worker, SpecQobuz the Qobuz adapter's retries under fair           *)
(* scheduling, SpecQInfo the queue with get_queue_info, SpecQLive the      *)
(* queue with stop_worker under fair scheduling, SpecNotify the bot's      *)
(* notification of completed tasks (bot.py).                               *)
(***************************************************************************)
EXTENDS Integers, Sequences, FiniteSets, TLC

(***************************************************************************)
(* Bounds of the model                                                     *)
(***************************************************************************)
\* number of tasks ever admitted by add_task
MaxTasks == 3
\* Config.QUEUE_MAX_SIZE (environment variable, default 100), kept small
QUEUE_MAX_SIZE == 2

\* number of download tokens ever created
MaxTokens == 1
\* number of times the clock is advanced
MaxAdvances == 2

\* Config.DOWNLOAD_LINK_MAX_COUNT, its default
DOWNLOAD_LINK_MAX_COUNT == 3
\* Config.DOWNLOAD_LINK_EXPIRE_HOURS, its default
DOWNLOAD_LINK_EXPIRE_HOURS == 24
\* timedelta(hours = 1) in seconds, the unit of the clock
SECONDS_PER_HOUR == 3600
\* the delay of _delayed_cleanup after the last download
CLEANUP_DELAY == 60
\* the sleep between two sweeps of _cleanup_expired_tokens, in seconds
SWEEP_INTERVAL == 3600

\* number of POST /upload requests ever made
MaxUploads == 2
\* Config.UPLOAD_MAX_SIZE in bytes (environment variable, default 1 GiB),
\* kept small
UPLOAD_MAX_SIZE == 2

None == 0

(***************************************************************************)
(* str                                                                     *)
(***************************************************************************)
\* A str is a sequence of pieces of text; " " is a run of whitespace.
Range(s) == { s[i] : i \in 1..Len(s) }

\* str.strip()
RECURSIVE LStrip(_)
LStrip(v) == IF v # << >> /\ Head(v) = " " THEN LStrip(Tail(v)) ELSE v

RECURSIVE RStrip(_)
RStrip(v) ==
    IF v # << >> /\ v[Len(v)] = " " THEN RStrip(SubSeq(v, 1, Len(v) - 1)) ELSE v

Strip(v) == RStrip(LStrip(v))

\* the pieces of text that have a letter in upper case, with their lower case
CaseFolded ==
    [c \in {"HTTP", "HTTPS", "Https", "YOUTU.BE", "Open.Spotify.Com",
            "WWW.QOBUZ.COM", "WATCH?V="} |->
       CASE c = "HTTP" -> "http"
         [] c \in {"HTTPS", "Https"} -> "https"
         [] c = "YOUTU.BE" -> "youtu.be"
         [] c = "Open.Spotify.Com" -> "open.spotify.com"
         [] c = "WWW.QOBUZ.COM" -> "www.qobuz.com"
         [] c = "WATCH?V=" -> "watch?v="]

\* the text as a match under re.IGNORECASE compares it
IgnoreCase(text) ==
    [i \in DOMAIN text |->
        IF text[i] \in DOMAIN CaseFolded THEN CaseFolded[text[i]] ELSE text[i]]

\* str.startswith
StartsWith(text, prefix) ==
    /\ Len(prefix) <= Len(text)
    /\ SubSeq(text, 1, Len(prefix)) = prefix

(***************************************************************************)
(* url_parser.py                                                           *)
(***************************************************************************)
\* A URL: its scheme, "://", its host, and the pieces r of what follows.
Url(s, h, r) == << s, "://", h >> \o r

\* URLParser.PATTERNS: per service its regular expressions, in dictionary
\* order.  Each expression is https?:// followed by one of a few hosts and a
\* literal prefix of the path: hosts are the hosts it admits (the optional
\* groups expanded), prefix the pieces that must follow the host.
PATTERNS ==
    << [service |-> "QOBUZ",
        patterns |-> << [hosts |-> {"qobuz.com", "www.qobuz.com", "play.qobuz.com",
                                    "www.play.qobuz.com"}, prefix |-> << "/" >>],
                        [hosts |-> {"open.qobuz.com"}, prefix |-> << "/" >>] >>],
       [service |-> "YOUTUBE",
        patterns |-> << [hosts |-> {"youtube.com", "www.youtube.com"},
                         prefix |-> << "/", "watch?v=" >>],
                        [hosts |-> {"youtube.com", "www.youtube.com"},
                         prefix |-> << "/", "playlist?list=" >>],
                        [hosts |-> {"youtu.be"}, prefix |-> << "/" >>],
                        [hosts |-> {"youtube.com", "www.youtube.com"},
                         prefix |-> << "/", "shorts/" >>],
                        [hosts |-> {"music.youtube.com"}, prefix |-> << "/" >>] >>],
       [service |-> "SPOTIFY",
        patterns |-> << [hosts |-> {"open.spotify.com"}, prefix |-> << "/" >>] >>] >>

\* re.match(pattern, url, re.IGNORECASE): the url starts, whatever the case
\* of its letters, with http:// or https://, a host of the pattern and the
\* pattern's prefix
Matches(p, url) ==
    LET text == IgnoreCase(url)
    IN  /\ Len(text) >= 3
        /\ text[1] \in {"http", "https"}
        /\ text[2] = "://"
        /\ text[3] \in p.hosts
        /\ StartsWith(SubSeq(text, 4, Len(text)), p.prefix)

\* lines 52-57: the first service, in order, one of whose patterns matches
RECURSIVE ParseFrom(_, _)
ParseFrom(i, url) ==
    IF i > Len(PATTERNS) THEN "UNKNOWN"
    ELSE IF \E j \in 1..Len(PATTERNS[i].patterns) : Matches(PATTERNS[i].patterns[j], url)
         THEN PATTERNS[i].service
         ELSE ParseFrom(i + 1, url)

\* URLParser.parse: url.strip(), then the patterns
parse_FirstService(url) == PATTERNS[1].service
parse_NoStrip(url) == ParseFrom(1, url)
parse(url) == ParseFrom(1, Strip(url))

\* the URLs submitted to the queue: one of a supported service, one that no
\* pattern matches (a channel page)
Urls == { Url("https", "youtu.be", << "/", "other" >>),
          Url("https", "www.youtube.com", << "/", "other" >>) }

\* the strings parse is called with: a URL or something like one, with
\* text or whitespace before it and whitespace after it
Leads == { << >>, << " " >>, << "x" >> }
Schemes == { "http", "https", "HTTP", "Https", "ftp" }
Hosts == { "qobuz.com", "WWW.QOBUZ.COM", "www.play.qobuz.com", "play.www.qobuz.com",
           "open.qobuz.com", "youtube.com", "www.youtube.com", "m.youtube.com",
           "music.youtube.com", "youtu.be", "YOUTU.BE", "youtuxbe",
           "open.spotify.com", "Open.Spotify.Com", "spotify.com" }
Routes == { << >>, << "/" >>, << "/", "watch?v=", "id" >>, << "/", "WATCH?V=" >>,
            << "/", "playlist?list=" >>, << "/", "shorts/" >>, << "/", "channel" >>,
            << ".evil.io", "/", "watch?v=" >> }
Trails == { << >>, << " " >> }
Strings ==
    { << >>, << " " >> } \cup
    { lead \o Url(s, h, r) \o trail :
        lead \in Leads, s \in Schemes, h \in Hosts, r \in Routes, trail \in Trails }

\* parse has not been called
NoReturn == "none"

(***************************************************************************)
(* queue_manager.py: data                                                  *)
(***************************************************************************)
TaskStatus == {"PENDING", "RUNNING", "COMPLETED", "FAILED"}
Terminal == {"COMPLETED", "FAILED"}

\* texts of the exceptions an adapter or a callback may raise
Errors == {"E1", "E2"}

\* DownloadTask.result = None
NoResult == [isset |-> FALSE, success |-> FALSE, message |-> "", error |-> ""]

DownloadResult(success, message, error) ==
    [isset |-> TRUE, success |-> success, message |-> message, error |-> error]

\* what an adapter's download(url) can return
AdapterResults ==
    { DownloadResult(TRUE, "done", ""), DownloadResult(FALSE, "failed", "E1") }

\* QueueManager._downloaders: the registry built in __init__
Downloaders == {"QOBUZ", "YOUTUBE", "SPOTIFY"}

VARIABLES
    tasks,              \* every DownloadTask ever created, by id (its index)
    queue,              \* QueueManager._queue
    pending_tasks,      \* QueueManager._pending_tasks
    history,            \* QueueManager._history
    current_task,       \* QueueManager._current_task
    worker_task,        \* QueueManager._worker_task and the position of _worker
    progress_callback,  \* QueueManager._progress_callback is set
    add_result,         \* what the last add_task returned
    cb_calls,           \* per task, the statuses the progress callback was invoked with
    started_order,      \* the tasks in the order they entered RUNNING
    adapter_outcome     \* per task, what the adapter's download did

qvars == << tasks, queue, pending_tasks, history, current_task, worker_task,
            progress_callback, add_result, cb_calls, started_order, adapter_outcome >>

VARIABLES
    now,                \* datetime.now(), in seconds
    advances,           \* how often the clock has been advanced
    tokens,             \* FileServer._tokens: token id -> DownloadToken
    issued,             \* how many token ids uuid4 has handed out
    files,              \* the paths that exist on disk
    cleanups,           \* the _delayed_cleanup tasks that have not run yet
    download_callback,  \* FileServer._download_callback is set
    background_tasks,   \* FileServer._background_tasks: the number of callback runs in it
    response,           \* the HTTP response given last
    served              \* per token id, the number of 200 responses given

fvars == << now, advances, tokens, issued, files, cleanups, download_callback,
            background_tasks, response, served >>

VARIABLES
    runner,             \* FileServer._runner is set (is_running)
    site,               \* the HTTP listener is bound
    cleanup_task,       \* FileServer._cleanup_task and the state of the sweep loop
    sweep_due,          \* when the sweep's sleep(3600) ends
    stopping,           \* a stop() call is suspended at one of its awaits
    last_call,          \* what the last start() or stop() call did
    info                \* the answer of the last GET /info/{token}

svars == << runner, site, cleanup_task, sweep_due, stopping, last_call, info >>

VARIABLES
    upload_token,       \* Config.UPLOAD_TOKEN
    uploads,            \* the files in Config.UPLOAD_PATH: stored name -> bytes written
    uuids,              \* how many names uuid4 has handed out to uploads
    upload_req          \* per POST /upload request, where its handler stands

uvars == << upload_token, uploads, uuids, upload_req >>

VARIABLES
    parse_arg,          \* the string URLParser.parse was called with
    parse_ret           \* what that call returned

pvars == << parse_arg, parse_ret >>

VARIABLES
    proc,               \* the external work the running adapter waits on
    orphans             \* the external work still going on that no adapter waits on

avars == << proc, orphans >>

VARIABLES
    queue_info          \* the list the last get_queue_info() returned, while its caller holds it

ivars == << queue_info >>

VARIABLES
    base_url,           \* Config.FILE_SERVER_BASE_URL is not empty
    notify              \* the _on_task_progress call for a COMPLETED task

nvars == << base_url, notify >>

vars == << qvars, fvars, svars, uvars, pvars, avars, ivars, nvars >>

TaskIds == 1..MaxTasks

NoWorker == [state |-> "None", pc |-> "get", task |-> None]

NoOutcome == [kind |-> "none", text |-> ""]

InitQ ==
    /\ tasks = << >>
    /\ queue = << >>
    /\ pending_tasks = << >>
    /\ history = << >>
    /\ current_task = None
    /\ worker_task = NoWorker
    /\ progress_callback = FALSE
    /\ add_result = [ok |-> FALSE, message |-> "", task |-> None, position |-> 0]
    /\ cb_calls = [t \in TaskIds |-> << >>]
    /\ started_order = << >>
    /\ adapter_outcome = [t \in TaskIds |-> NoOutcome]

(***************************************************************************)
(* queue_manager.py: helpers                                               *)
(***************************************************************************)
\* asyncio.Queue.full() for a queue built with maxsize = QUEUE_MAX_SIZE:
\* a maxsize <= 0 means unbounded
QueueFull_OffByOne(q) == QUEUE_MAX_SIZE > 0 /\ Len(q) > QUEUE_MAX_SIZE
QueueFull(q) == QUEUE_MAX_SIZE > 0 /\ Len(q) >= QUEUE_MAX_SIZE

\* list.remove(x): drops the first occurrence of x
RECURSIVE ListRemove(_, _)
ListRemove(s, x) ==
    IF s = << >> THEN << >>
    ELSE IF Head(s) = x THEN Tail(s)
    ELSE << Head(s) >> \o ListRemove(Tail(s), x)

InList(s, x) == \E i \in 1..Len(s) : s[i] = x

\* DownloadTask(...) as add_task builds it
NewTask(url, service) ==
    [url |-> url, service |-> service, status |-> "PENDING", result |-> NoResult]

\* lines 160-163: the status that follows the adapter's result
StatusOf_Completed(result) == "COMPLETED"
StatusOf_Requeue(result) == IF result.success THEN "COMPLETED" ELSE "PENDING"
StatusOf(result) == IF result.success THEN "COMPLETED" ELSE "FAILED"

\* lines 165-168
NoDownloaderResult == DownloadResult(FALSE, "NoDownloaderAvailable", "")

\* lines 171-175: the result recorded when the adapter raises e
ExceptionResult_NoDetail(e) == DownloadResult(FALSE, "AdapterFailure", "")
ExceptionResult_Unset(e) == NoResult
ExceptionResult(e) == DownloadResult(FALSE, "AdapterFailure", e)

WorkerAlive == worker_task.state \in {"alive", "cancelling"}

\* asyncio.Task.done()
WorkerDone_Always == TRUE
WorkerDone == worker_task.state \in {"cancelled", "failed"}

\* the worker can take a step of its own: it exists and no cancellation is
\* waiting to be thrown into it
WorkerAt(pc) == worker_task.state = "alive" /\ worker_task.pc = pc

(***************************************************************************)
(* queue_manager.py: operations                                            *)
(***************************************************************************)
\* set_progress_callback
SetProgressCallback ==
    /\ progress_callback' = TRUE
    /\ UNCHANGED << tasks, queue, pending_tasks, history, current_task, worker_task,
                    add_result, cb_calls, started_order, adapter_outcome >>
    /\ UNCHANGED << fvars, svars, uvars, pvars, avars, ivars, nvars >>

\* add_task(url, ...): neither check suspends, and put() on a queue that is
\* not full returns without suspending
AddTask(url) ==
    LET service == parse(url)
        id == Len(tasks) + 1
    IN  /\ IF service = "UNKNOWN"
           THEN /\ add_result' = [ok |-> FALSE, message |-> "UnsupportedURL",
                                  task |-> None, position |-> 0]
                /\ UNCHANGED << tasks, pending_tasks, queue >>
           ELSE IF QueueFull(queue)
           THEN /\ add_result' = [ok |-> FALSE, message |-> "QueueFull",
                                  task |-> None, position |-> 0]
                /\ UNCHANGED << tasks, pending_tasks, queue >>
           ELSE /\ id <= MaxTasks
                /\ tasks' = Append(tasks, NewTask(url, service))
                /\ pending_tasks' = Append(pending_tasks, id)
                /\ queue' = Append(queue, id)
                /\ add_result' = [ok |-> TRUE, message |-> "Added",
                                  task |-> id, position |-> Len(queue) + 1]
        /\ UNCHANGED << history, current_task, worker_task, progress_callback,
                        cb_calls, started_order, adapter_outcome >>
        /\ UNCHANGED << fvars, svars, uvars, pvars, avars, ivars, nvars >>

\* start_worker
StartWorker ==
    /\ IF worker_task.state = "None" \/ WorkerDone
       THEN worker_task' = [state |-> "alive", pc |-> "get", task |-> None]
       ELSE UNCHANGED worker_task
    /\ UNCHANGED << tasks, queue, pending_tasks, history, current_task,
                    progress_callback, add_result, cb_calls, started_order,
                    adapter_outcome >>
    /\ UNCHANGED << fvars, svars, uvars, pvars, avars, ivars, nvars >>

\* stop_worker, lines 132-133: cancel() asks for CancelledError to be thrown
\* into the worker at the await it is suspended on
StopWorker ==
    /\ IF WorkerAlive
       THEN worker_task' = [worker_task EXCEPT !.state = "cancelling"]
       ELSE UNCHANGED worker_task
    /\ UNCHANGED << tasks, queue, pending_tasks, history, current_task,
                    progress_callback, add_result, cb_calls, started_order,
                    adapter_outcome >>
    /\ UNCHANGED << fvars, svars, uvars, pvars, avars, ivars, nvars >>

\* CancelledError reaches the worker: no handler of _worker, of the adapters
\* or of the callback catches it (they catch Exception), so the coroutine
\* ends where it stood and stop_worker's await returns
WorkerCancelled ==
    /\ worker_task.state = "cancelling"
    /\ worker_task' = [worker_task EXCEPT !.state = "cancelled"]
    /\ UNCHANGED << tasks, queue, pending_tasks, history, current_task,
                    progress_callback, add_result, cb_calls, started_order,
                    adapter_outcome >>
    /\ UNCHANGED << fvars, svars, uvars, pvars, avars, ivars, nvars >>

\* _worker, lines 178-186, for task t with the task table ts: sets tasks,
\* current_task, history, cb_calls and worker_task
Finish_NoHistory(t, ts) ==
    /\ tasks' = ts
    /\ current_task' = None
    /\ UNCHANGED history
    /\ IF progress_callback
       THEN /\ cb_calls' = [cb_calls EXCEPT ![t] = Append(@, ts[t].status)]
            /\ worker_task' = [state |-> "alive", pc |-> "notify_end", task |-> t]
       ELSE /\ UNCHANGED cb_calls
            /\ worker_task' = [state |-> "alive", pc |-> "get", task |-> t]
Finish(t, ts) ==
    /\ tasks' = ts
    /\ current_task' = None
    /\ history' = Append(history, t)
    /\ IF progress_callback
       THEN /\ cb_calls' = [cb_calls EXCEPT ![t] = Append(@, ts[t].status)]
            /\ worker_task' = [state |-> "alive", pc |-> "notify_end", task |-> t]
       ELSE /\ UNCHANGED cb_calls
            /\ worker_task' = [state |-> "alive", pc |-> "get", task |-> t]

\* _worker, lines 156-169, up to the await of the adapter: sets the same
\* variables as Finish
Dispatch(t, ts) ==
    IF ts[t].service \in Downloaders
    THEN /\ tasks' = ts
         /\ current_task' = t
         /\ worker_task' = [state |-> "alive", pc |-> "download", task |-> t]
         /\ UNCHANGED << history, cb_calls >>
    ELSE Finish(t, [ts EXCEPT ![t].result = NoDownloaderResult,
                              ![t].status = "FAILED"])

\* _worker, lines 142-154: the queue hands over its oldest task
WorkerGet ==
    /\ WorkerAt("get")
    /\ queue # << >>
    /\ LET t == Head(queue)
           ts == [tasks EXCEPT ![t].status = "RUNNING"]
       IN  /\ queue' = Tail(queue)
           /\ pending_tasks' = IF InList(pending_tasks, t)
                                THEN ListRemove(pending_tasks, t)
                                ELSE pending_tasks
           /\ started_order' = Append(started_order, t)
           /\ IF progress_callback
              THEN /\ tasks' = ts
                   /\ current_task' = t
                   /\ cb_calls' = [cb_calls EXCEPT ![t] = Append(@, "RUNNING")]
                   /\ worker_task' = [state |-> "alive", pc |-> "notify_start",
                                      task |-> t]
                   /\ UNCHANGED history
              ELSE Dispatch(t, ts)
    /\ UNCHANGED << progress_callback, add_result, adapter_outcome >>
    /\ UNCHANGED << fvars, svars, uvars, pvars, avars, ivars, nvars >>

\* line 154 returns
StartNotified ==
    /\ WorkerAt("notify_start")
    /\ Dispatch(worker_task.task, tasks)
    /\ UNCHANGED << queue, pending_tasks, progress_callback, add_result,
                    started_order, adapter_outcome >>
    /\ UNCHANGED << fvars, svars, uvars, pvars, avars, ivars, nvars >>

\* line 159 returns result, then lines 160-163 and 178-184
AdapterReturns(result) ==
    /\ WorkerAt("download")
    /\ LET t == worker_task.task
       IN  /\ Finish(t, [tasks EXCEPT ![t].result = result,
                                      ![t].status = StatusOf(result)])
           /\ adapter_outcome' = [adapter_outcome EXCEPT
                                     ![t] = [kind |-> "returned", text |-> ""]]
    /\ UNCHANGED << queue, pending_tasks, progress_callback, add_result,
                    started_order >>
    /\ UNCHANGED << fvars, svars, uvars, pvars, avars, ivars, nvars >>

\* line 159 raises an Exception with text e, then lines 170-176 and 178-184
AdapterRaises(e) ==
    /\ WorkerAt("download")
    /\ LET t == worker_task.task
       IN  /\ Finish(t, [tasks EXCEPT ![t].result = ExceptionResult(e),
                                      ![t].status = "FAILED"])
           /\ adapter_outcome' = [adapter_outcome EXCEPT
                                     ![t] = [kind |-> "raised", text |-> e]]
    /\ UNCHANGED << queue, pending_tasks, progress_callback, add_result,
                    started_order >>
    /\ UNCHANGED << fvars, svars, uvars, pvars, avars, ivars, nvars >>

\* line 184 returns, then task_done() and back to the top of the loop
EndNotified ==
    /\ WorkerAt("notify_end")
    /\ worker_task' = [worker_task EXCEPT !.pc = "get"]
    /\ UNCHANGED << tasks, queue, pending_tasks, history, current_task,
                    progress_callback, add_result, cb_calls, started_order,
                    adapter_outcome >>
    /\ UNCHANGED << fvars, svars, uvars, pvars, avars, ivars, nvars >>

\* line 154 or line 184 raises: neither is inside the try, so the exception
\* leaves _worker and the asyncio task is done
ProgressCallbackRaises ==
    /\ WorkerAt("notify_start") \/ WorkerAt("notify_end")
    /\ worker_task' = [worker_task EXCEPT !.state = "failed"]
    /\ UNCHANGED << tasks, queue, pending_tasks, history, current_task,
                    progress_callback, add_result, cb_calls, started_order,
                    adapter_outcome >>
    /\ UNCHANGED << fvars, svars, uvars, pvars, avars, ivars, nvars >>

(***************************************************************************)
(* file_server.py: data and helpers                                        *)
(***************************************************************************)
TokenIds == 1..MaxTokens

\* the files a link can be made for
Paths == {"a.zip", "b.zip"}

\* max_downloads as create_download_link receives it: None (0) or a count
MaxDownloadsArgs == {None, 1}

\* the expiry DownloadToken.__post_init__ adds to the creation time
ExpireSeconds == DOWNLOAD_LINK_EXPIRE_HOURS * SECONDS_PER_HOUR

\* the amounts by which the clock advances: a token made at time T is at
\* its expiry instant after ExpireSeconds and past it CLEANUP_DELAY later
TimeSteps == {CLEANUP_DELAY, ExpireSeconds}

NoResponse == [token |-> None, status |-> 0, remaining |-> 0, text |-> ""]

\* web.Response(status, text) or, for 200, the web.FileResponse with its
\* X-Downloads-Remaining header
Response(id, status, remaining, text) ==
    [token |-> id, status |-> status, remaining |-> remaining, text |-> text]

\* the JSON body of GET /info/{token}
NoInfo == [token |-> None, valid |-> FALSE, reason |-> "", remaining |-> 0]

InfoBody(id, valid, reason, remaining) ==
    [token |-> id, valid |-> valid, reason |-> reason, remaining |-> remaining]

InitF ==
    /\ now = 0
    /\ advances = 0
    /\ tokens = << >>
    /\ issued = 0
    /\ files = {}
    /\ cleanups = {}
    /\ download_callback = FALSE
    /\ background_tasks = 0
    /\ response = NoResponse
    /\ served = [id \in TokenIds |-> 0]

InitS ==
    /\ runner = FALSE
    /\ site = FALSE
    /\ cleanup_task = "None"
    /\ sweep_due = 0
    /\ stopping = FALSE
    /\ last_call = "none"
    /\ info = NoInfo

\* DownloadToken.is_expired
is_expired_AtExpiry(token) == now >= token.expires_at
is_expired(token) == now > token.expires_at

\* DownloadToken.is_exhausted
is_exhausted_Strict(token) == token.download_count > token.max_downloads
is_exhausted(token) == token.download_count >= token.max_downloads

\* DownloadToken.is_valid
is_valid(token) == ~is_expired(token) /\ ~is_exhausted(token)

Max(a, b) == IF a >= b THEN a ELSE b

\* DownloadToken.remaining_downloads
remaining_downloads(token) == Max(0, token.max_downloads - token.download_count)

\* dict.pop(token_id, None) on _tokens
Pop(toks, id) == [x \in DOMAIN toks \ {id} |-> toks[x]]

\* invalidate_token(token_id) on the token map toks and the disk fs: the map
\* and the disk it leaves, and what it returns.  unlink() is taken to succeed.
invalidate_token_KeepFile(toks, fs, id) ==
    IF id \in DOMAIN toks
    THEN [tokens |-> Pop(toks, id), files |-> fs, result |-> TRUE]
    ELSE [tokens |-> toks, files |-> fs, result |-> FALSE]
invalidate_token_AlwaysTrue(toks, fs, id) ==
    IF id \in DOMAIN toks
    THEN [tokens |-> Pop(toks, id), files |-> fs \ {toks[id].file_path}, result |-> TRUE]
    ELSE [tokens |-> toks, files |-> fs, result |-> TRUE]
invalidate_token(toks, fs, id) ==
    IF id \in DOMAIN toks
    THEN [tokens |-> Pop(toks, id), files |-> fs \ {toks[id].file_path}, result |-> TRUE]
    ELSE [tokens |-> toks, files |-> fs, result |-> FALSE]

\* invalidate_token for each id of ids in turn (lines 353-354 and 411-412)
RECURSIVE InvalidateEach(_, _, _)
InvalidateEach(toks, fs, ids) ==
    IF ids = {} THEN [tokens |-> toks, files |-> fs]
    ELSE LET id == CHOOSE x \in ids : TRUE
             r == invalidate_token(toks, fs, id)
         IN  InvalidateEach(r.tokens, r.files, ids \ {id})

\* line 125: max_downloads or Config.DOWNLOAD_LINK_MAX_COUNT
MaxDownloadsOf_Default(m) == DOWNLOAD_LINK_MAX_COUNT
MaxDownloadsOf(m) == IF m # None THEN m ELSE DOWNLOAD_LINK_MAX_COUNT

\* lines 191-205: the branch _handle_download takes for token id
DownloadDecision_FileFirst(id) ==
    IF id \notin DOMAIN tokens THEN "not_found"
    ELSE IF tokens[id].file_path \notin files THEN "file_missing"
    ELSE IF is_expired(tokens[id]) THEN "expired"
    ELSE IF is_exhausted(tokens[id]) THEN "exhausted"
    ELSE "ok"
DownloadDecision(id) ==
    IF id \notin DOMAIN tokens THEN "not_found"
    ELSE IF is_expired(tokens[id]) THEN "expired"
    ELSE IF is_exhausted(tokens[id]) THEN "exhausted"
    ELSE IF tokens[id].file_path \notin files THEN "file_missing"
    ELSE "ok"

\* line 326: the reason _handle_info gives for a token that is not valid
Reason_ExhaustedFirst(token) == IF is_exhausted(token) THEN "exhausted" ELSE "expired"
Reason(token) == IF is_expired(token) THEN "expired" ELSE "exhausted"

\* lines 320-334: the body _handle_info answers for token id
InfoResponse(id) ==
    IF id \notin DOMAIN tokens THEN InfoBody(id, FALSE, "not_found", 0)
    ELSE IF ~is_valid(tokens[id]) THEN InfoBody(id, FALSE, Reason(tokens[id]), 0)
    ELSE InfoBody(id, TRUE, "", remaining_downloads(tokens[id]))

\* lines 347-351: the tokens a sweep invalidates
SweepTargets_ExpiredOnly == {id \in DOMAIN tokens : is_expired(tokens[id])}
SweepTargets == {id \in DOMAIN tokens : ~is_valid(tokens[id])}

\* _schedule_download_callback on a tracked set of bt runs: with a callback
\* registered, one more run is started and added to the set
schedule_download_callback_Untracked(bt) == bt
schedule_download_callback(bt) == IF download_callback THEN bt + 1 ELSE bt

\* line 208: the count after one more download
Redeemed_Twice(token) == [token EXCEPT !.download_count = @ + 2]
Redeemed(token) == [token EXCEPT !.download_count = @ + 1]

(***************************************************************************)
(* file_server.py: operations                                              *)
(***************************************************************************)
\* set_download_callback
SetDownloadCallback ==
    /\ download_callback' = TRUE
    /\ UNCHANGED << now, advances, tokens, issued, files, cleanups,
                    background_tasks, response, served >>
    /\ UNCHANGED << qvars, svars, uvars, pvars, avars, ivars, nvars >>

\* create_download_link(file_path, max_downloads = m)
CreateDownloadLink(path, m) ==
    /\ issued < MaxTokens
    /\ LET id == issued + 1
           token == [file_path |-> path,
                     expires_at |-> now + ExpireSeconds,
                     max_downloads |-> MaxDownloadsOf(m),
                     download_count |-> 0]
       IN  /\ issued' = id
           /\ tokens' = [x \in DOMAIN tokens \cup {id} |->
                            IF x = id THEN token ELSE tokens[x]]
    /\ UNCHANGED << now, advances, files, cleanups, download_callback,
                    background_tasks, response, served >>
    /\ UNCHANGED << qvars, svars, uvars, pvars, avars, ivars, nvars >>

\* invalidate_token(token_id), called from outside the server
InvalidateToken(id) ==
    /\ LET r == invalidate_token(tokens, files, id)
       IN  /\ tokens' = r.tokens
           /\ files' = r.files
    /\ UNCHANGED << now, advances, issued, cleanups, download_callback,
                    background_tasks, response, served >>
    /\ UNCHANGED << qvars, svars, uvars, pvars, avars, ivars, nvars >>

\* the answer of a rejected download request, after invalidate_token
Reject(id, status, text) ==
    /\ LET r == invalidate_token(tokens, files, id)
       IN  /\ tokens' = r.tokens
           /\ files' = r.files
    /\ response' = Response(id, status, 0, text)
    /\ UNCHANGED << cleanups, background_tasks, served >>

\* _handle_download for GET /download/{id}, which aiohttp calls while the
\* site is bound.  token.lock is free whenever a handler reaches it, since no
\* holder awaits inside the locked block; the handler therefore runs from
\* the lookup to its return without suspending.
HandleDownload(id) ==
    /\ site
    /\ LET decision == DownloadDecision(id)
       IN
       IF decision = "not_found"
       THEN /\ response' = Response(id, 404, 0, "Download link not found")
            /\ UNCHANGED << tokens, files, cleanups, background_tasks, served >>
       ELSE IF decision = "expired" THEN Reject(id, 410, "Download link has expired")
       ELSE IF decision = "exhausted" THEN Reject(id, 410, "Download limit reached")
       ELSE IF decision = "file_missing" THEN Reject(id, 404, "File not found")
       ELSE LET token == Redeemed(tokens[id])
                remaining == remaining_downloads(token)
            IN  /\ tokens' = [tokens EXCEPT ![id] = token]
                /\ background_tasks' = schedule_download_callback(background_tasks)
                /\ cleanups' =
                      IF remaining = 0
                      THEN cleanups \cup {[token |-> id, due |-> now + CLEANUP_DELAY]}
                      ELSE cleanups
                /\ response' = Response(id, 200, remaining, "file")
                /\ served' = [served EXCEPT ![id] = @ + 1]
                /\ UNCHANGED files
    /\ UNCHANGED << now, advances, issued, download_callback >>
    /\ UNCHANGED << qvars, svars, uvars, pvars, avars, ivars, nvars >>

\* _delayed_cleanup: the sleep is over, invalidate_token runs
DelayedCleanup(c) ==
    /\ c \in cleanups
    /\ now >= c.due
    /\ cleanups' = cleanups \ {c}
    /\ LET r == invalidate_token(tokens, files, c.token)
       IN  /\ tokens' = r.tokens
           /\ files' = r.files
    /\ UNCHANGED << now, advances, issued, download_callback, background_tasks,
                    response, served >>
    /\ UNCHANGED << qvars, svars, uvars, pvars, avars, ivars, nvars >>

\* a post-download callback run ends (returns or raises): _log_error
\* discards it from _background_tasks
DownloadCallbackDone ==
    /\ background_tasks > 0
    /\ background_tasks' = background_tasks - 1
    /\ UNCHANGED << now, advances, tokens, issued, files, cleanups,
                    download_callback, response, served >>
    /\ UNCHANGED << qvars, svars, uvars, pvars, avars, ivars, nvars >>

\* the environment: an archive is written to disk
FileCreated(path) ==
    /\ path \notin files
    /\ files' = files \cup {path}
    /\ UNCHANGED << now, advances, tokens, issued, cleanups, download_callback,
                    background_tasks, response, served >>
    /\ UNCHANGED << qvars, svars, uvars, pvars, avars, ivars, nvars >>

\* the environment: a file is removed from disk by something else
FileRemoved(path) ==
    /\ path \in files
    /\ files' = files \ {path}
    /\ UNCHANGED << now, advances, tokens, issued, cleanups, download_callback,
                    background_tasks, response, served >>
    /\ UNCHANGED << qvars, svars, uvars, pvars, avars, ivars, nvars >>

\* the environment: time passes
AdvanceTime(d) ==
    /\ advances < MaxAdvances
    /\ advances' = advances + 1
    /\ now' = now + d
    /\ UNCHANGED << tokens, issued, files, cleanups, download_callback,
                    background_tasks, response, served >>
    /\ UNCHANGED << qvars, svars, uvars, pvars, avars, ivars, nvars >>

\* _handle_info for GET /info/{id}: reads the token map, changes nothing
HandleInfo_Invalidating(id) ==
    /\ site
    /\ info' = InfoResponse(id)
    /\ LET r == IF id \in DOMAIN tokens /\ ~is_valid(tokens[id])
                THEN invalidate_token(tokens, files, id)
                ELSE [tokens |-> tokens, files |-> files]
       IN  /\ tokens' = r.tokens
           /\ files' = r.files
    /\ UNCHANGED << now, advances, issued, cleanups, download_callback,
                    background_tasks, response, served >>
    /\ UNCHANGED << runner, site, cleanup_task, sweep_due, stopping, last_call >>
    /\ UNCHANGED << qvars, uvars, pvars, avars, ivars, nvars >>
HandleInfo(id) ==
    /\ site
    /\ info' = InfoResponse(id)
    /\ UNCHANGED << runner, site, cleanup_task, sweep_due, stopping, last_call >>
    /\ UNCHANGED << qvars, fvars, uvars, pvars, avars, ivars, nvars >>

\* is_running
is_running == runner

\* start(), when the listener binds: lines 371-387.  On a running server it
\* returns at line 373.
Start ==
    /\ IF is_running
       THEN /\ last_call' = "start_noop"
            /\ UNCHANGED << runner, site, cleanup_task, sweep_due >>
       ELSE /\ runner' = TRUE
            /\ site' = TRUE
            /\ cleanup_task' = "alive"
            /\ sweep_due' = now + SWEEP_INTERVAL
            /\ last_call' = "started"
    /\ UNCHANGED << stopping, info >>
    /\ UNCHANGED << qvars, fvars, uvars, pvars, avars, ivars, nvars >>

\* start(), when runner.setup() or site.start() raises (the port is taken):
\* _runner was assigned at line 380, line 387 is never reached
StartFails ==
    /\ ~is_running
    /\ runner' = TRUE
    /\ last_call' = "start_failed"
    /\ UNCHANGED << site, cleanup_task, sweep_due, stopping, info >>
    /\ UNCHANGED << qvars, fvars, uvars, pvars, avars, ivars, nvars >>

\* one round of _cleanup_expired_tokens: the sleep ends, lines 347-354 run
\* without suspending, the next sleep begins
Sweep ==
    /\ cleanup_task = "alive"
    /\ now >= sweep_due
    /\ LET r == InvalidateEach(tokens, files, SweepTargets)
       IN  /\ tokens' = r.tokens
           /\ files' = r.files
    /\ sweep_due' = now + SWEEP_INTERVAL
    /\ UNCHANGED << now, advances, issued, cleanups, download_callback,
                    background_tasks, response, served >>
    /\ UNCHANGED << runner, site, cleanup_task, stopping, last_call, info >>
    /\ UNCHANGED << qvars, uvars, pvars, avars, ivars, nvars >>

\* stop(), lines 393-399: on a server that is not running it returns at once;
\* otherwise it cancels the sweep and suspends until the sweep loop has
\* ended and the runner has shut down
Stop ==
    /\ ~stopping
    /\ IF ~is_running
       THEN /\ last_call' = "stop_noop"
            /\ UNCHANGED << cleanup_task, stopping >>
       ELSE /\ cleanup_task' = IF cleanup_task = "alive" THEN "cancelling"
                                                         ELSE cleanup_task
            /\ stopping' = TRUE
            /\ UNCHANGED last_call
    /\ UNCHANGED << runner, site, sweep_due, info >>
    /\ UNCHANGED << qvars, fvars, uvars, pvars, avars, ivars, nvars >>

\* stop(), lines 402-414: the awaits are over; the rest runs to the return
\* without suspending
StopReturns ==
    /\ stopping
    /\ cleanup_task' = "None"
    /\ runner' = FALSE
    /\ site' = FALSE
    /\ stopping' = FALSE
    /\ sweep_due' = 0
    /\ last_call' = "stopped"
    /\ LET r == InvalidateEach(tokens, files, DOMAIN tokens)
       IN  /\ tokens' = r.tokens
           /\ files' = r.files
    /\ UNCHANGED << now, advances, issued, cleanups, download_callback,
                    background_tasks, response, served >>
    /\ UNCHANGED info
    /\ UNCHANGED << qvars, uvars, pvars, avars, ivars, nvars >>

(***************************************************************************)
(* file_server.py: POST /upload                                            *)
(***************************************************************************)
\* Strings the handler takes apart are sequences of characters: "NUL" is the
\* null byte, "é" any character outside ASCII.

\* the secret of the deployment
Secret == << "s" >>

\* the values Config.UPLOAD_TOKEN is given: not set, blank, the secret
UploadTokens == { << >>, << " " >>, Secret }

\* the values a client puts in a header or in the query string
TokenValues == { << >>, Secret, << "w" >>, << "é" >> }

\* Content-Length absent: request.content_length is None
NoLength == -1

\* the Authorization header: its scheme and what follows the scheme's space
NoAuthorization == [scheme |-> "", cred |-> << >>]

Authorizations ==
    { NoAuthorization,
      [scheme |-> "Bearer", cred |-> << "s", " " >>],
      [scheme |-> "BEARER", cred |-> Secret],
      [scheme |-> "Bearer", cred |-> << "w" >>],
      [scheme |-> "Basic", cred |-> Secret] }

ContentTypes == { "multipart/form-data", "application/json" }

ContentLengths == { NoLength, UPLOAD_MAX_SIZE, UPLOAD_MAX_SIZE + 1 }

\* the POST /upload requests: headers and query string
UploadRequests ==
    [authorization : Authorizations, x_upload_token : TokenValues,
     token : TokenValues, content_type : ContentTypes,
     content_length : ContentLengths]

\* the requests of a client that sends no token, or the secret as bearer
BodyRequests ==
    [authorization : { NoAuthorization,
                       [scheme |-> "Bearer", cred |-> << "s", " " >>] },
     x_upload_token : { << >> }, token : { << >> },
     content_type : ContentTypes, content_length : ContentLengths]

\* the filename of the "file" part as the client sent it; << >> is a part
\* with no filename
Filenames ==
    { << >>, << "a" >>, << "d", "/", "a" >>, << "a", "\\", "b" >>,
      << "a", ":", "b" >>, << "a", "NUL" >>, << "." >>, << ".", "." >>,
      << "a", "/", ".", "." >>, << "/" >> }

\* what the loop of lines 258-264 ends with: no part named "file", or one
Parts ==
    { [present |-> FALSE, filename |-> << >>] }
    \cup { [present |-> TRUE, filename |-> f] : f \in Filenames }

\* the lengths field.read_chunk() returns
ChunkSizes == { 1, UPLOAD_MAX_SIZE }

UploadIds == 1..MaxUploads

\* target_path before line 280
NoTarget == [uuid |-> 0, name |-> << >>]

\* the handler of a request that has not arrived
NoUpload ==
    [pc |-> "none", status |-> 0, target |-> NoTarget, size |-> 0,
     declared |-> NoLength]

\* the handler has answered with the status (0: the connection broke, there
\* is no answer)
Done(status) ==
    [pc |-> "done", status |-> status, target |-> NoTarget, size |-> 0,
     declared |-> NoLength]

InitU ==
    /\ upload_token = Secret
    /\ uploads = << >>
    /\ uuids = 0
    /\ upload_req = [r \in UploadIds |-> NoUpload]

\* str.lower() on the scheme of the Authorization header
Lower(scheme) ==
    IF scheme \in {"Bearer", "BEARER"} THEN "bearer"
    ELSE IF scheme = "Basic" THEN "basic"
    ELSE scheme

\* secrets.compare_digest(a, b) on two str: it raises TypeError when either
\* has a character outside ASCII
compare_digest(a, b) ==
    IF "é" \in Range(a) \cup Range(b) THEN "TypeError"
    ELSE IF a = b THEN "authorized"
    ELSE "unauthorized"

\* lines 171-180: the token the request is judged by
PresentedToken_QueryFirst(req) ==
    IF Strip(req.token) # << >> THEN Strip(req.token)
    ELSE IF Strip(req.x_upload_token) # << >> THEN Strip(req.x_upload_token)
    ELSE IF Lower(req.authorization.scheme) = "bearer"
    THEN Strip(req.authorization.cred)
    ELSE << >>
PresentedToken(req) ==
    LET bearer == IF Lower(req.authorization.scheme) = "bearer"
                  THEN Strip(req.authorization.cred)
                  ELSE << >>
    IN  IF bearer # << >> THEN bearer
        ELSE IF Strip(req.x_upload_token) # << >> THEN Strip(req.x_upload_token)
        ELSE Strip(req.token)

\* _is_upload_authorized(request)
is_upload_authorized_NoStrip(req) ==
    IF upload_token = << >> THEN "authorized"
    ELSE compare_digest(PresentedToken(req), Strip(upload_token))
is_upload_authorized(req) ==
    IF Strip(upload_token) = << >> THEN "authorized"
    ELSE compare_digest(PresentedToken(req), Strip(upload_token))

\* request.content_type.startswith("multipart/")
IsMultipart(content_type) == content_type = "multipart/form-data"

\* lines 241-254: the status the handler answers before it reads the body,
\* 0 when it goes on to read it; an exception that leaves the handler is
\* answered 500 by aiohttp
UploadDecision_LengthFirst(req) ==
    IF req.content_length # NoLength /\ req.content_length > UPLOAD_MAX_SIZE THEN 413
    ELSE IF is_upload_authorized(req) = "TypeError" THEN 500
    ELSE IF is_upload_authorized(req) = "unauthorized" THEN 401
    ELSE IF ~IsMultipart(req.content_type) THEN 415
    ELSE 0
UploadDecision(req) ==
    IF is_upload_authorized(req) = "TypeError" THEN 500
    ELSE IF is_upload_authorized(req) = "unauthorized" THEN 401
    ELSE IF ~IsMultipart(req.content_type) THEN 415
    ELSE IF req.content_length # NoLength /\ req.content_length > UPLOAD_MAX_SIZE THEN 413
    ELSE 0

\* the parts of a POSIX path: the pieces between slashes
RECURSIVE SplitSlash(_, _, _)
SplitSlash(s, cur, acc) ==
    IF s = << >> THEN Append(acc, cur)
    ELSE IF Head(s) = "/" THEN SplitSlash(Tail(s), << >>, Append(acc, cur))
    ELSE SplitSlash(Tail(s), Append(cur, Head(s)), acc)

\* PurePosixPath(s).name: the last piece that is neither empty nor ".", or
\* the empty string when there is none
PathName(s) ==
    LET pieces == SelectSeq(SplitSlash(s, << >>, << >>),
                            LAMBDA c : c # << >> /\ c # << "." >>)
    IN  IF pieces = << >> THEN << >> ELSE pieces[Len(pieces)]

Upload == << "u", "p", "l", "o", "a", "d" >>

\* line 269: Path(field.filename).name or "upload"
original_name(filename) ==
    IF PathName(filename) = << >> THEN Upload ELSE PathName(filename)

\* lines 270-276
InvalidName_NoColon(name) ==
    \/ name = << >>
    \/ name \in { << "." >>, << ".", "." >> }
    \/ "/" \in Range(name)
    \/ "\\" \in Range(name)
    \/ "NUL" \in Range(name)
InvalidName(name) ==
    \/ name = << >>
    \/ name \in { << "." >>, << ".", "." >> }
    \/ "/" \in Range(name)
    \/ "\\" \in Range(name)
    \/ "NUL" \in Range(name)
    \/ ":" \in Range(name)

\* the upload directory after n bytes in all have been written to target
WriteFile(fs, target, n) ==
    [x \in DOMAIN fs \cup {target} |-> IF x = target THEN n ELSE fs[x]]

\* target_path.unlink()
Unlink(fs, target) == [x \in DOMAIN fs \ {target} |-> fs[x]]

\* _handle_upload, lines 241-256: a request arrives and is answered, or the
\* handler suspends on the multipart reader
UploadArrives(r, req) ==
    /\ site
    /\ upload_req[r].pc = "none"
    /\ \A q \in 1..(r - 1) : upload_req[q].pc # "none"
    /\ upload_req' =
          [upload_req EXCEPT ![r] =
              IF UploadDecision(req) # 0
              THEN Done(UploadDecision(req))
              ELSE [pc |-> "multipart", status |-> 0, target |-> NoTarget,
                    size |-> 0, declared |-> req.content_length]]
    /\ UNCHANGED << upload_token, uploads, uuids >>
    /\ UNCHANGED << qvars, fvars, svars, pvars, avars, ivars, nvars >>

\* _handle_upload, lines 258-287: the reader has delivered the part named
\* "file", or none; an accepted part gets its file, opened empty
UploadField(r, part) ==
    /\ upload_req[r].pc = "multipart"
    /\ IF ~part.present \/ part.filename = << >>
       THEN /\ upload_req' = [upload_req EXCEPT ![r] = Done(400)]
            /\ UNCHANGED << uploads, uuids >>
       ELSE IF InvalidName(original_name(part.filename))
       THEN /\ upload_req' = [upload_req EXCEPT ![r] = Done(400)]
            /\ UNCHANGED << uploads, uuids >>
       ELSE LET target == [uuid |-> uuids + 1,
                           name |-> original_name(part.filename)]
            IN  /\ uuids' = uuids + 1
                /\ uploads' = WriteFile(uploads, target, 0)
                /\ upload_req' = [upload_req EXCEPT ![r].pc = "streaming",
                                                    ![r].target = target]
    /\ UNCHANGED upload_token
    /\ UNCHANGED << qvars, fvars, svars, pvars, avars, ivars, nvars >>

\* _handle_upload, lines 287-300: read_chunk returns n bytes, of a body that
\* holds no more than the declared Content-Length
UploadChunk(r, n) ==
    /\ upload_req[r].pc = "streaming"
    /\ \/ upload_req[r].declared = NoLength
       \/ upload_req[r].size + n <= upload_req[r].declared
    /\ IF upload_req[r].size + n > UPLOAD_MAX_SIZE
       THEN /\ upload_req' = [upload_req EXCEPT ![r] = Done(413)]
            /\ uploads' = Unlink(uploads, upload_req[r].target)
       ELSE /\ upload_req' = [upload_req EXCEPT ![r].size = @ + n]
            /\ uploads' = WriteFile(uploads, upload_req[r].target,
                                    upload_req[r].size + n)
    /\ UNCHANGED << upload_token, uuids >>
    /\ UNCHANGED << qvars, fvars, svars, pvars, avars, ivars, nvars >>

\* _handle_upload, lines 288-311: read_chunk returns no bytes, the upload is
\* complete and answered 200 with the stored name and the size
UploadEnd(r) ==
    /\ upload_req[r].pc = "streaming"
    /\ upload_req' = [upload_req EXCEPT ![r].pc = "done", ![r].status = 200]
    /\ UNCHANGED << upload_token, uploads, uuids >>
    /\ UNCHANGED << qvars, fvars, svars, pvars, avars, ivars, nvars >>

\* the client goes away while the handler waits for the body: the await
\* raises, the finally block of lines 298-300 deletes what was written
UploadAborted(r) ==
    /\ upload_req[r].pc \in {"multipart", "streaming"}
    /\ upload_req' = [upload_req EXCEPT ![r] = Done(0)]
    /\ uploads' = IF upload_req[r].pc = "streaming"
                  THEN Unlink(uploads, upload_req[r].target)
                  ELSE uploads
    /\ UNCHANGED << upload_token, uuids >>
    /\ UNCHANGED << qvars, fvars, svars, pvars, avars, ivars, nvars >>

(***************************************************************************)
(* downloaders: what download(url) waits on                                *)
(***************************************************************************)
\* base.py line 67: the default of run_command's timeout, in seconds
COMMAND_TIMEOUT == 1800

\* Config.MAX_RETRIES
MAX_RETRIES == 3

\* no adapter is waiting on anything
NoProc == [kind |-> "none", state |-> "none", timeout |-> None, attempt |-> 0,
           step |-> "none"]

\* the child process of run_command, awaited with wait_for(..., timeout)
Process(step) == [kind |-> "process", state |-> "running", timeout |-> COMMAND_TIMEOUT,
                  attempt |-> 0, step |-> step]

\* the thread run_in_executor runs handle_url on, awaited as it is
Thread(attempt) == [kind |-> "thread", state |-> "running", timeout |-> None,
                    attempt |-> attempt, step |-> "download"]

\* one URL of each service
AdapterUrls == { Url("https", "open.qobuz.com", << "/", "album" >>),
                 Url("https", "youtu.be", << "/", "id" >>),
                 Url("https", "open.spotify.com", << "/", "track" >>) }

\* return codes of the command
ReturnCodes == {0, 1}

\* run_command's answer after a timeout, as the adapters pass it on
TimeoutResult == DownloadResult(FALSE, "failed", "timeout")

\* qobuz.py lines 89-93
RetriesExhausted == DownloadResult(FALSE, "failed", "max_retries")

\* the task whose download the worker awaits
Downloading == tasks[worker_task.task]

\* download(url) returns result to _worker: lines 159-163 and 178-184
DownloadReturns(result) ==
    /\ LET t == worker_task.task
       IN  /\ Finish(t, [tasks EXCEPT ![t].result = result,
                                      ![t].status = StatusOf(result)])
           /\ adapter_outcome' = [adapter_outcome EXCEPT
                                     ![t] = [kind |-> "returned", text |-> ""]]
    /\ proc' = NoProc
    /\ UNCHANGED orphans
    /\ UNCHANGED << queue, pending_tasks, progress_callback, add_result,
                    started_order >>
    /\ UNCHANGED << fvars, svars, uvars, pvars, ivars, nvars >>

\* the adapter goes on waiting: _worker stays at line 159
StillDownloading(p) ==
    /\ proc' = p
    /\ UNCHANGED orphans
    /\ UNCHANGED << qvars, fvars, svars, uvars, pvars, ivars, nvars >>

\* run_command, lines 84-101: the command of the YouTube or Spotify adapter
\* is started and communicate() is awaited
RunCommand ==
    /\ WorkerAt("download")
    /\ proc = NoProc
    /\ Downloading.service \in {"YOUTUBE", "SPOTIFY"}
    /\ StillDownloading(Process("download"))

\* run_command, lines 80-82: resolve_command finds no executable; the
\* adapters turn returncode -1 into a failed result
CommandUnresolved ==
    /\ WorkerAt("download")
    /\ proc = NoProc
    /\ Downloading.service \in {"YOUTUBE", "SPOTIFY"}
    /\ DownloadReturns(DownloadResult(FALSE, "failed", "E1"))

\* the process exits with returncode rc before the timeout.  After its
\* download command the YouTube adapter may run a second command for the
\* cover (cover = TRUE), whose outcome does not change the result.
ProcessExits(rc, cover) ==
    /\ WorkerAt("download")
    /\ proc.kind = "process"
    /\ proc.state = "running"
    /\ IF proc.step = "cover" THEN DownloadReturns(DownloadResult(TRUE, "done", ""))
       ELSE IF rc # 0 THEN DownloadReturns(DownloadResult(FALSE, "failed", "E1"))
       ELSE IF Downloading.service = "YOUTUBE" /\ cover
            THEN StillDownloading(Process("cover"))
            ELSE DownloadReturns(DownloadResult(TRUE, "done", ""))

\* run_command, lines 109-111: wait_for raises TimeoutError, the process is
\* sent SIGKILL and process.wait() is awaited
WaitTimesOut ==
    /\ WorkerAt("download")
    /\ proc.kind = "process"
    /\ proc.state = "running"
    /\ proc.timeout # None
    /\ StillDownloading([proc EXCEPT !.state = "killed"])

\* run_command, lines 111-116: process.wait() returns and run_command
\* answers (-1, "", timeout message)
ProcessReaped ==
    /\ WorkerAt("download")
    /\ proc.kind = "process"
    /\ proc.state = "killed"
    /\ IF proc.step = "cover" THEN DownloadReturns(DownloadResult(TRUE, "done", ""))
       ELSE DownloadReturns(TimeoutResult)

\* CancelledError reaches the worker while its adapter waits: it is raised
\* at the await of wait_for (base.py lines 101-104), of process.wait() (line
\* 111) or of run_in_executor (qobuz.py line 103).  run_command handles
\* asyncio.TimeoutError only and _execute_download handles Exception, so
\* nothing is killed: a running process or thread goes on with no one
\* waiting for it.  A process that the timeout had killed is not counted.
DownloadCancelled ==
    /\ worker_task.state = "cancelling"
    /\ worker_task' = [worker_task EXCEPT !.state = "cancelled"]
    /\ proc' = NoProc
    /\ orphans' = IF proc.state = "running"
                  THEN [orphans EXCEPT ![proc.kind] = @ + 1]
                  ELSE orphans
    /\ UNCHANGED << tasks, queue, pending_tasks, history, current_task,
                    progress_callback, add_result, cb_calls, started_order,
                    adapter_outcome >>
    /\ UNCHANGED << fvars, svars, uvars, pvars, ivars, nvars >>

\* work that no adapter waits on ends by itself
OrphanEnds(kind) ==
    /\ orphans[kind] > 0
    /\ orphans' = [orphans EXCEPT ![kind] = @ - 1]
    /\ UNCHANGED proc
    /\ UNCHANGED << qvars, fvars, svars, uvars, pvars, ivars, nvars >>

\* qobuz.py lines 64-65 and 98-103: the first attempt hands handle_url to
\* the default executor and awaits it
RunInExecutor ==
    /\ WorkerAt("download")
    /\ proc = NoProc
    /\ Downloading.service = "QOBUZ"
    /\ StillDownloading(Thread(1))

\* handle_url returns: lines 105-108, then 67-87
ThreadReturns ==
    /\ WorkerAt("download")
    /\ proc.kind = "thread"
    /\ proc.state = "running"
    /\ DownloadReturns(DownloadResult(TRUE, "done", ""))

\* handle_url raises: lines 109-115, then the next attempt or lines 89-93
ThreadRaises_NoLimit ==
    /\ WorkerAt("download")
    /\ proc.kind = "thread"
    /\ proc.state = "running"
    /\ StillDownloading(Thread(proc.attempt + 1))
ThreadRaises ==
    /\ WorkerAt("download")
    /\ proc.kind = "thread"
    /\ proc.state = "running"
    /\ IF proc.attempt < MAX_RETRIES
       THEN StillDownloading(Thread(proc.attempt + 1))
       ELSE DownloadReturns(RetriesExhausted)

InitP ==
    /\ parse_arg = << >>
    /\ parse_ret = NoReturn

\* no external work is left behind
NoOrphans == [process |-> 0, thread |-> 0]

InitA ==
    /\ proc = NoProc
    /\ orphans = NoOrphans

\* get_queue_info has not been called
NoQueueInfo == [ref |-> "none", pending |-> << >>]

InitI == queue_info = NoQueueInfo

\* get_queue_info(): lines 210-212.  ref tells whether the list handed out
\* is a new list ("copy") or _pending_tasks itself ("alias").
get_queue_info_Alias ==
    [list |-> [ref |-> "alias", pending |-> pending_tasks], current |-> current_task]
get_queue_info ==
    [list |-> [ref |-> "copy", pending |-> pending_tasks], current |-> current_task]

\* a coroutine that holds no list from an earlier call calls
\* get_queue_info() and keeps the list
GetQueueInfo ==
    /\ queue_info = NoQueueInfo
    /\ queue_info' = get_queue_info.list
    /\ UNCHANGED << qvars, fvars, svars, uvars, pvars, avars, nvars >>

\* the caller empties the list it was given (list.clear()) and drops it;
\* the list object _pending_tasks is emptied with it when it is that same
\* object
MutateInfo ==
    /\ queue_info.ref # "none"
    /\ queue_info' = NoQueueInfo
    /\ IF queue_info.ref = "alias"
       THEN pending_tasks' = << >>
       ELSE UNCHANGED pending_tasks
    /\ UNCHANGED << tasks, queue, history, current_task, worker_task,
                    progress_callback, add_result, cb_calls, started_order,
                    adapter_outcome >>
    /\ UNCHANGED << fvars, svars, uvars, pvars, avars, nvars >>

(***************************************************************************)
(* bot.py: _on_task_progress for a COMPLETED task                          *)
(***************************************************************************)
\* Config.DOWNLOAD_SIZE_THRESHOLD, its default (10 MB)
DOWNLOAD_SIZE_THRESHOLD == 10485760

\* zip_to_cleanup = None
NoPath == ""

\* the sizes create_zip_archive reports for an archive it wrote (a zip file
\* is never empty)
ZipSizes ==
    { DOWNLOAD_SIZE_THRESHOLD - 1, DOWNLOAD_SIZE_THRESHOLD,
      DOWNLOAD_SIZE_THRESHOLD + 1 }

\* no notification of a completed task is running.  path is the archive
\* create_zip_archive is asked for, created whether it wrote it, size the
\* size it reported, link the token made for it.
NoNotify ==
    [pc |-> "none", path |-> NoPath, created |-> FALSE, size |-> 0,
     zip_to_cleanup |-> NoPath, file_attachment |-> FALSE, link |-> None]

InitN ==
    /\ base_url = FALSE
    /\ notify = NoNotify

\* lines 298-346: zip_to_cleanup when the message is about to be sent
CleanupTarget_Early(path, size) ==
    IF size < DOWNLOAD_SIZE_THRESHOLD THEN path ELSE NoPath
CleanupTarget(path, size) ==
    IF size < DOWNLOAD_SIZE_THRESHOLD THEN path
    ELSE IF base_url THEN NoPath
    ELSE path

\* lines 243-295: the worker calls the callback for a task that is
\* COMPLETED; the handler suspends in create_zip_archive when the download
\* folder exists, and in channel.send otherwise
OnTaskCompleted(path, exists) ==
    /\ notify.pc \in {"none", "returned"}
    /\ issued < MaxTokens
    /\ notify' = IF exists
                 THEN [NoNotify EXCEPT !.pc = "zip", !.path = path]
                 ELSE [NoNotify EXCEPT !.pc = "send"]
    /\ UNCHANGED base_url
    /\ UNCHANGED << qvars, fvars, svars, uvars, pvars, avars, ivars >>

\* archive_utils.py lines 37-51 and bot.py lines 295-372: the archive is
\* written and create_zip_archive returns it with its size; below the
\* threshold it is opened as attachment (raised: discord.File raises),
\* from the threshold on a link is made when a base URL is configured
\* (raised: the field or the view of the link raises); the handler suspends
\* in channel.send
CreateZipReturns(size, raised) ==
    /\ notify.pc = "zip"
    /\ files' = files \cup {notify.path}
    /\ LET linked == size >= DOWNLOAD_SIZE_THRESHOLD /\ base_url
           id == issued + 1
           token == [file_path |-> notify.path,
                     expires_at |-> now + ExpireSeconds,
                     max_downloads |-> MaxDownloadsOf(None),
                     download_count |-> 0]
       IN  /\ issued' = IF linked THEN id ELSE issued
           /\ tokens' = IF linked
                        THEN [x \in DOMAIN tokens \cup {id} |->
                                 IF x = id THEN token ELSE tokens[x]]
                        ELSE tokens
           /\ notify' =
                 [notify EXCEPT
                    !.pc = "send",
                    !.created = TRUE,
                    !.size = size,
                    !.zip_to_cleanup = IF size > 0
                                       THEN CleanupTarget(notify.path, size)
                                       ELSE NoPath,
                    !.file_attachment =
                       size < DOWNLOAD_SIZE_THRESHOLD /\ ~raised,
                    !.link = IF linked THEN id ELSE None]
    /\ UNCHANGED base_url
    /\ UNCHANGED << now, advances, cleanups, download_callback,
                    background_tasks, response, served >>
    /\ UNCHANGED << qvars, svars, uvars, pvars, avars, ivars >>

\* archive_utils.py lines 38-41 and 52-56: writing the archive fails;
\* _create_zip has removed what there was at the path and returns (None, 0)
CreateZipFails ==
    /\ notify.pc = "zip"
    /\ files' = files \ {notify.path}
    /\ notify' = [notify EXCEPT !.pc = "send"]
    /\ UNCHANGED base_url
    /\ UNCHANGED << now, advances, tokens, issued, cleanups, download_callback,
                    background_tasks, response, served >>
    /\ UNCHANGED << qvars, svars, uvars, pvars, avars, ivars >>

\* lines 387-392, the finally block: the attachment is closed and
\* zip_to_cleanup unlinked when it exists; the handler returns
Finally ==
    /\ files' = files \ {notify.zip_to_cleanup}
    /\ notify' = [notify EXCEPT !.pc = "returned", !.file_attachment = FALSE]
    /\ UNCHANGED base_url
    /\ UNCHANGED << now, advances, tokens, issued, cleanups, download_callback,
                    background_tasks, response, served >>
    /\ UNCHANGED << qvars, svars, uvars, pvars, avars, ivars >>

\* the handler goes on to the next send after one that raised
NextSend(pc) ==
    /\ notify' = [notify EXCEPT !.pc = pc]
    /\ UNCHANGED base_url
    /\ UNCHANGED << qvars, fvars, svars, uvars, pvars, avars, ivars >>

\* line 372: channel.send returns
SendReturns == notify.pc = "send" /\ Finally

\* lines 373-375: channel.send raises
SendRaises == notify.pc = "send" /\ NextSend("fallback")

\* line 378: the short message is sent
FallbackReturns == notify.pc = "fallback" /\ Finally

\* lines 379-380: the short message raises too
FallbackRaises == notify.pc = "fallback" /\ NextSend("dm")

\* lines 381-386: the direct message is sent, or what it raises is printed
DmEnds == notify.pc = "dm" /\ Finally

Init == InitQ /\ InitF /\ InitS /\ InitU /\ InitP /\ InitA /\ InitI /\ InitN

\* the server after start() has bound the listener at time 0
InitServing ==
    /\ InitQ
    /\ InitF
    /\ runner = TRUE
    /\ site = TRUE
    /\ cleanup_task = "alive"
    /\ sweep_due = SWEEP_INTERVAL
    /\ stopping = FALSE
    /\ last_call = "started"
    /\ info = NoInfo
    /\ InitU
    /\ InitP
    /\ InitA
    /\ InitI /\ InitN

NextQ ==
    \/ SetProgressCallback
    \/ \E url \in Urls : AddTask(url)
    \/ StartWorker
    \/ StopWorker
    \/ WorkerCancelled
    \/ WorkerGet
    \/ StartNotified
    \/ \E result \in AdapterResults : AdapterReturns(result)
    \/ \E e \in Errors : AdapterRaises(e)
    \/ EndNotified
    \/ ProgressCallbackRaises

SpecQ == Init /\ [][NextQ]_vars

\* the queue when the progress callback never raises
NextQReturning ==
    \/ SetProgressCallback
    \/ \E url \in Urls : AddTask(url)
    \/ StartWorker
    \/ StopWorker
    \/ WorkerCancelled
    \/ WorkerGet
    \/ StartNotified
    \/ \E result \in AdapterResults : AdapterReturns(result)
    \/ \E e \in Errors : AdapterRaises(e)
    \/ EndNotified

SpecQReturning == Init /\ [][NextQReturning]_vars

\* the queue and its worker without a progress callback
NextQLive ==
    \/ \E url \in Urls : AddTask(url)
    \/ StartWorker
    \/ StopWorker
    \/ WorkerCancelled
    \/ WorkerGet
    \/ \E result \in AdapterResults : AdapterReturns(result)
    \/ \E e \in Errors : AdapterRaises(e)

\* the event loop runs a worker that can take a step, a cancellation is
\* delivered, every adapter call ends, and a worker that is not running is
\* started again
SpecQLive ==
    /\ Init
    /\ [][NextQLive]_vars
    /\ WF_vars(StartWorker)
    /\ WF_vars(WorkerCancelled)
    /\ SF_vars(WorkerGet)
    /\ SF_vars(\E result \in AdapterResults : AdapterReturns(result))

\* the queue and its worker with adapters that return, and a coroutine that
\* reads the queue with get_queue_info() and does what it likes with the
\* list it gets
NextQInfo ==
    \/ SetProgressCallback
    \/ \E url \in Urls : AddTask(url)
    \/ StartWorker
    \/ StopWorker
    \/ WorkerCancelled
    \/ WorkerGet
    \/ StartNotified
    \/ \E result \in AdapterResults : AdapterReturns(result)
    \/ EndNotified
    \/ ProgressCallbackRaises
    \/ GetQueueInfo
    \/ MutateInfo

SpecQInfo == Init /\ [][NextQInfo]_vars

NextFS ==
    \/ SetDownloadCallback
    \/ \E path \in Paths, m \in MaxDownloadsArgs : CreateDownloadLink(path, m)
    \/ \E id \in TokenIds : InvalidateToken(id)
    \/ \E id \in TokenIds : HandleDownload(id)
    \/ \E c \in cleanups : DelayedCleanup(c)
    \/ DownloadCallbackDone
    \/ \E path \in Paths : FileCreated(path)
    \/ \E path \in Paths : FileRemoved(path)
    \/ \E d \in TimeSteps : AdvanceTime(d)

\* the download path of a server that has been started
SpecFS == InitServing /\ [][NextFS]_vars

\* links, downloads and /info on a server that has been started
NextLinks ==
    \/ \E path \in Paths, m \in MaxDownloadsArgs : CreateDownloadLink(path, m)
    \/ \E id \in TokenIds : InvalidateToken(id)
    \/ \E id \in TokenIds : HandleDownload(id)
    \/ \E id \in TokenIds : HandleInfo(id)
    \/ \E c \in cleanups : DelayedCleanup(c)
    \/ \E path \in Paths : FileCreated(path)
    \/ \E d \in TimeSteps : AdvanceTime(d)

SpecLinks == InitServing /\ [][NextLinks]_vars

\* the file server with its lifecycle: start, stop, sweep, links, downloads
NextSrv ==
    \/ Start
    \/ StartFails
    \/ Stop
    \/ StopReturns
    \/ Sweep
    \/ \E path \in Paths, m \in MaxDownloadsArgs : CreateDownloadLink(path, m)
    \/ \E id \in TokenIds : InvalidateToken(id)
    \/ \E id \in TokenIds : HandleDownload(id)
    \/ \E c \in cleanups : DelayedCleanup(c)
    \/ \E path \in Paths : FileCreated(path)
    \/ \E d \in TimeSteps : AdvanceTime(d)

SpecSrv == Init /\ [][NextSrv]_vars

\* a started server, with and without a base URL configured
InitNotify ==
    /\ InitQ
    /\ InitF
    /\ runner = TRUE
    /\ site = TRUE
    /\ cleanup_task = "alive"
    /\ sweep_due = SWEEP_INTERVAL
    /\ stopping = FALSE
    /\ last_call = "started"
    /\ info = NoInfo
    /\ InitU
    /\ InitP
    /\ InitA
    /\ queue_info = NoQueueInfo
    /\ base_url \in BOOLEAN
    /\ notify = NoNotify

\* the notifications of completed tasks, one after the other as the worker
\* awaits each, with the downloads and the cleanup of the file server
NextNotify ==
    \/ \E path \in Paths, exists \in BOOLEAN : OnTaskCompleted(path, exists)
    \/ \E size \in ZipSizes, raised \in BOOLEAN : CreateZipReturns(size, raised)
    \/ CreateZipFails
    \/ SendReturns
    \/ SendRaises
    \/ FallbackReturns
    \/ FallbackRaises
    \/ DmEnds
    \/ \E id \in TokenIds : HandleDownload(id)
    \/ \E c \in cleanups : DelayedCleanup(c)
    \/ Sweep
    \/ \E d \in TimeSteps : AdvanceTime(d)

SpecNotify == InitNotify /\ [][NextNotify]_vars

\* the archive the links of SpecSweep are made for
SweepPaths == {"a.zip"}

\* the sweep of a started server and what feeds it: links are made and
\* downloaded, time passes, the server is stopped
NextSweep ==
    \/ Stop
    \/ StopReturns
    \/ Sweep
    \/ \E path \in SweepPaths, m \in MaxDownloadsArgs : CreateDownloadLink(path, m)
    \/ \E id \in TokenIds : HandleDownload(id)
    \/ \E path \in SweepPaths : FileCreated(path)
    \/ \E d \in TimeSteps : AdvanceTime(d)

\* the event loop resumes a coroutine whose sleep is over or whose awaited
\* task has ended: a sweep that is due runs, a stop() that waits returns
SpecSweep ==
    /\ InitServing
    /\ [][NextSweep]_vars
    /\ WF_vars(Sweep)
    /\ WF_vars(StopReturns)

\* POST /upload on a server that has been started and has the secret
\* configured
NextUpload ==
    \/ \E r \in UploadIds, req \in BodyRequests : UploadArrives(r, req)
    \/ \E r \in UploadIds, part \in Parts : UploadField(r, part)
    \/ \E r \in UploadIds, n \in ChunkSizes : UploadChunk(r, n)
    \/ \E r \in UploadIds : UploadEnd(r)
    \/ \E r \in UploadIds : UploadAborted(r)

SpecUpload == InitServing /\ [][NextUpload]_vars

\* a started server with each value the upload secret can be configured to
InitUploadAuth ==
    /\ InitQ
    /\ InitF
    /\ runner = TRUE
    /\ site = TRUE
    /\ cleanup_task = "alive"
    /\ sweep_due = SWEEP_INTERVAL
    /\ stopping = FALSE
    /\ last_call = "started"
    /\ info = NoInfo
    /\ upload_token \in UploadTokens
    /\ uploads = << >>
    /\ uuids = 0
    /\ upload_req = [r \in UploadIds |-> NoUpload]
    /\ InitP
    /\ InitA
    /\ InitI /\ InitN

\* the first checks of POST /upload, for requests with every combination of
\* tokens; a client whose request is let through may go away
NextUploadAuth ==
    \/ \E r \in UploadIds, req \in UploadRequests : UploadArrives(r, req)
    \/ \E r \in UploadIds : UploadAborted(r)

SpecUploadAuth == InitUploadAuth /\ [][NextUploadAuth]_vars

\* URLParser.parse(url) is called and returns
ParseCall ==
    /\ parse_ret = NoReturn
    /\ parse_ret' = parse(parse_arg)
    /\ UNCHANGED parse_arg
    /\ UNCHANGED << qvars, fvars, svars, uvars, avars, ivars, nvars >>

\* parse called with each of the strings
InitParse ==
    /\ InitQ /\ InitF /\ InitS /\ InitU /\ InitA /\ InitI /\ InitN
    /\ parse_arg \in Strings
    /\ parse_ret = NoReturn

NextParse == ParseCall

SpecParse == InitParse /\ [][NextParse]_vars

\* the worker with the adapters' waits on external work spelled out
NextAdapters ==
    \/ \E url \in AdapterUrls : AddTask(url)
    \/ StartWorker
    \/ WorkerGet
    \/ RunCommand
    \/ CommandUnresolved
    \/ \E rc \in ReturnCodes, cover \in BOOLEAN : ProcessExits(rc, cover)
    \/ WaitTimesOut
    \/ ProcessReaped
    \/ RunInExecutor
    \/ ThreadReturns
    \/ ThreadRaises

SpecAdapters == Init /\ [][NextAdapters]_vars

\* the same with stop_worker
NextAdaptersStop ==
    \/ NextAdapters
    \/ StopWorker
    \/ DownloadCancelled
    \/ \E kind \in {"process", "thread"} : OrphanEnds(kind)

SpecAdaptersStop == Init /\ [][NextAdaptersStop]_vars

\* the Qobuz URL submitted in SpecQobuz
QobuzUrls == { Url("https", "open.qobuz.com", << "/", "album" >>),
               Url("https", "www.qobuz.com", << "/", "album" >>) }

\* the worker downloading from Qobuz
NextQobuz ==
    \/ \E url \in QobuzUrls : AddTask(url)
    \/ StartWorker
    \/ WorkerGet
    \/ RunInExecutor
    \/ ThreadReturns
    \/ ThreadRaises

\* each call of handle_url in the executor ends, by returning or by raising
SpecQobuz ==
    /\ Init
    /\ [][NextQobuz]_vars
    /\ WF_vars(ThreadReturns \/ ThreadRaises)

(***************************************************************************)
(* Properties of the queue and its worker                                  *)
(***************************************************************************)
Created == DOMAIN tasks

RunningTasks == {t \in Created : tasks[t].status = "RUNNING"}

\* C1: in every reachable state at most one task has status RUNNING.
\* Violated: a worker cancelled (or killed by a raising callback) during a
\* task leaves it RUNNING, and the next worker starts the next task.
C1_AtMostOneRunning == Cardinality(RunningTasks) <= 1

\* C3: tasks enter RUNNING in the order of their successful add_task calls
\* (ids are handed out in that order), and when a task enters RUNNING every
\* task started before it is COMPLETED or FAILED.
C3_FifoOneAtATime ==
    /\ \A i \in 1..Len(started_order) : started_order[i] = i
    /\ \A i \in 1..(Len(started_order) - 1) :
          tasks[started_order[i]].status \in Terminal

QueueFullReturn ==
    [ok |-> FALSE, message |-> "QueueFull", task |-> None, position |-> 0]

UnsupportedReturn ==
    [ok |-> FALSE, message |-> "UnsupportedURL", task |-> None, position |-> 0]

\* C4 as stated: every add_task on a queue that holds QUEUE_MAX_SIZE waiting
\* tasks returns the queue-full answer and changes nothing.  Violated by a
\* URL of no supported service, which gets the unsupported-URL answer.
C4_FullQueueAlwaysQueueFull ==
    [][\A url \in Urls :
          (Len(queue) = QUEUE_MAX_SIZE /\ AddTask(url))
          => /\ add_result' = QueueFullReturn
             /\ UNCHANGED << tasks, queue, pending_tasks, history, current_task >>]_vars

\* C4 amended: on a queue that holds QUEUE_MAX_SIZE waiting tasks, add_task
\* with a URL of a supported service returns (false, queue-full, nil), with
\* any other URL (false, unsupported-URL, nil); in both cases the queue, the
\* pending list, the history and every task stay as they were.
C4_FullQueueRejects ==
    [][\A url \in Urls :
          (Len(queue) = QUEUE_MAX_SIZE /\ AddTask(url))
          => /\ add_result' = IF parse(url) = "UNKNOWN" THEN UnsupportedReturn
                                                        ELSE QueueFullReturn
             /\ UNCHANGED << tasks, queue, pending_tasks, history, current_task >>]_vars

\* C4 witness: add_task has just answered queue-full on a full queue
C4_Witness ==
    /\ Len(queue) = QUEUE_MAX_SIZE
    /\ add_result = QueueFullReturn
    /\ Len(pending_tasks) = QUEUE_MAX_SIZE

\* C5: a task whose adapter call raised is FAILED, with a result whose
\* success flag is false and whose error detail is the exception's text.
C5_AdapterFaultFails ==
    \A t \in Created :
        adapter_outcome[t].kind = "raised"
        => /\ tasks[t].status = "FAILED"
           /\ tasks[t].result.isset
           /\ ~tasks[t].result.success
           /\ tasks[t].result.error = adapter_outcome[t].text

\* C5 witness: an adapter raised E2 and the task carries that text
C5_Witness ==
    \E t \in Created :
        /\ adapter_outcome[t] = [kind |-> "raised", text |-> "E2"]
        /\ tasks[t].status = "FAILED"
        /\ tasks[t].result.error = "E2"

\* C6: the worker loop does not end because of a task whose adapter raised:
\* it is never dead (other than by stop_worker) while that task is the last
\* one it handled.  Violated: the terminal notification of the FAILED task
\* raises outside the try block and the exception ends _worker.
C6_WorkerSurvivesAdapterFault ==
    worker_task.state = "failed"
    => adapter_outcome[worker_task.task].kind # "raised"

\* C7: a task is created PENDING; its status changes only PENDING->RUNNING,
\* in the worker step that takes it from the queue and leads to the adapter
\* call, and RUNNING->COMPLETED or RUNNING->FAILED; a COMPLETED or FAILED
\* status never changes.
C7_StatusTransitions ==
    [][\A t \in DOMAIN tasks' :
          IF t \notin DOMAIN tasks
          THEN tasks'[t].status = "PENDING"
          ELSE tasks'[t].status # tasks[t].status
               => \/ /\ tasks[t].status = "PENDING"
                     /\ tasks'[t].status = "RUNNING"
                     /\ WorkerAt("get")
                     /\ worker_task'.state = "alive"
                     /\ worker_task'.task = t
                     /\ worker_task'.pc \in {"notify_start", "download"}
                  \/ /\ tasks[t].status = "RUNNING"
                     /\ tasks'[t].status \in Terminal]_vars

\* C7 witness: one task has ended COMPLETED, another FAILED, a third waits
C7_Witness ==
    /\ \E t \in Created : tasks[t].status = "COMPLETED"
    /\ \E t \in Created : tasks[t].status = "FAILED"
    /\ \E t \in Created : tasks[t].status = "PENDING"

\* C8: a task's result is set exactly when its status is COMPLETED or
\* FAILED.
C8_ResultIffTerminal ==
    \A t \in Created : tasks[t].result.isset <=> tasks[t].status \in Terminal

\* C8 witness: stop_worker interrupted a download (that task is RUNNING with
\* no result) after another task had ended with a result
C8_Witness ==
    /\ worker_task.state = "cancelled"
    /\ worker_task.pc = "download"
    /\ tasks[worker_task.task].status = "RUNNING"
    /\ ~tasks[worker_task.task].result.isset
    /\ \E t \in Created : tasks[t].status \in Terminal /\ tasks[t].result.isset

\* the worker is still between taking task t and recording its outcome
Processing(t) ==
    /\ WorkerAlive
    /\ worker_task.task = t
    /\ worker_task.pc \in {"notify_start", "download"}

\* C9: for every task the worker has processed (the callback being set when
\* the task started), the callback was invoked exactly twice: with RUNNING,
\* then with the task's terminal status.  Violated: a worker cancelled by
\* stop_worker, or killed by the first notification raising, never makes the
\* second call.
C9_CallbackTwice ==
    \A t \in Created :
        (/\ cb_calls[t] # << >>
         /\ cb_calls[t][1] = "RUNNING"
         /\ ~Processing(t))
        => /\ tasks[t].status \in Terminal
           /\ cb_calls[t] = << "RUNNING", tasks[t].status >>

\* some pattern of some service matches the URL
Classified(url) ==
    \E i \in 1..Len(PATTERNS) :
        \E j \in 1..Len(PATTERNS[i].patterns) : Matches(PATTERNS[i].patterns[j], url)

\* C20: add_task with a URL that no pattern matches returns (false,
\* unsupported-URL, nil) and leaves the tasks, the queue and the pending list
\* as they are, also when the queue is full; add_task succeeds exactly when
\* some pattern matches the URL and the queue is not full, and it then
\* creates one PENDING task at the end of the queue and of the pending list.
C20_UnsupportedFirst ==
    [][\A url \in Urls :
          AddTask(url)
          => /\ ~Classified(url)
                => /\ add_result' = UnsupportedReturn
                   /\ UNCHANGED << tasks, queue, pending_tasks >>
             /\ add_result'.ok <=> (Classified(url) /\ Len(queue) < QUEUE_MAX_SIZE)
             /\ add_result'.ok
                => /\ Len(tasks') = Len(tasks) + 1
                   /\ tasks'[Len(tasks')].url = url
                   /\ tasks'[Len(tasks')].status = "PENDING"
                   /\ queue' = Append(queue, Len(tasks'))
                   /\ pending_tasks' = Append(pending_tasks, Len(tasks'))]_vars

\* C20 witness: the last add_task call, made on a full queue with a URL that
\* no pattern matches, got the unsupported-URL answer
C20_Witness ==
    /\ Len(queue) = QUEUE_MAX_SIZE
    /\ add_result = UnsupportedReturn
    /\ Len(tasks) = QUEUE_MAX_SIZE

\* C21: start_worker on a live worker changes nothing, and otherwise leaves
\* one new worker loop at the top of its loop; stop_worker with no live
\* worker changes nothing, and with a live worker it only requests the
\* cancellation; a worker whose cancellation is requested takes no step but
\* its termination, which is when stop_worker returns.
C21_WorkerLifecycle ==
    /\ [][StartWorker
          => /\ WorkerAlive'
             /\ WorkerAlive => UNCHANGED vars
             /\ ~WorkerAlive
                => worker_task' = [state |-> "alive", pc |-> "get", task |-> None]]_vars
    /\ [][StopWorker
          => IF WorkerAlive
             THEN worker_task' = [worker_task EXCEPT !.state = "cancelling"]
             ELSE UNCHANGED vars]_vars
    /\ [][worker_task.state = "cancelling"
          => /\ worker_task' \in {worker_task,
                                  [worker_task EXCEPT !.state = "cancelled"]}
             /\ \A t \in DOMAIN tasks : tasks'[t] = tasks[t]
             /\ UNCHANGED << history, current_task, cb_calls >>]_vars
    /\ [][WorkerCancelled => ~WorkerAlive']_vars

\* C21 witness: a worker stopped during a download has terminated, and
\* start_worker has put a new worker loop in its place, which took the next
\* task
C21_Witness ==
    /\ worker_task.state = "alive"
    /\ worker_task.pc = "download"
    /\ Len(started_order) = 2
    /\ tasks[started_order[1]].status = "RUNNING"
    /\ adapter_outcome[started_order[1]] = NoOutcome
    /\ ~progress_callback

(***************************************************************************)
(* Properties of the file server                                           *)
(***************************************************************************)
\* C2 as stated, for requests that follow each other with no time passing:
\* once a token has been downloaded, every request for it that is not
\* answered 200 is answered 410, so the request that follows a 410 is
\* answered 410 too.  Violated: the request answered 410 removes the token
\* and the next one is answered 404.
C2_RestObserve410 ==
    [][(/\ now = 0
        /\ response.status = 410
        /\ served[response.token] >= 1
        /\ response' # response
        /\ response'.token = response.token)
       => response'.status \in {200, 410}]_vars

\* C2 amended: of the requests for a token with max_downloads = m at most m
\* are answered 200, each while fewer than m were answered 200 before; every
\* other request is answered 410 when it finds the token registered and
\* expired or used up (and it removes the token), and 404 when the token is
\* not registered or its file is missing; no rejected request counts as a
\* download.
C2_AtMostMaxServed ==
    [][(response' # response \/ served' # served)
       => LET id == response'.token
              active == id \in DOMAIN tokens
          IN  /\ response'.status \in {200, 404, 410}
              /\ response'.status = 200
                 => /\ active
                    /\ served[id] < tokens[id].max_downloads
                    /\ served' = [served EXCEPT ![id] = @ + 1]
              /\ response'.status = 410
                 => /\ active
                    /\ \/ now > tokens[id].expires_at
                       \/ served[id] >= tokens[id].max_downloads
                    /\ id \notin DOMAIN tokens'
              /\ response'.status = 404
                 => \/ ~active
                    \/ tokens[id].file_path \notin files
              /\ response'.status # 200 => served' = served]_vars

\* C2 witness: a token with the default limit has been downloaded
\* DOWNLOAD_LINK_MAX_COUNT times and the next request got 410
C2_Witness ==
    /\ response.status = 410
    /\ response.token \in TokenIds
    /\ served[response.token] = DOWNLOAD_LINK_MAX_COUNT
    /\ now = 0

\* C10: a step that answers 200 for a token raises its download_count by
\* exactly 1, lowers its remaining_downloads by exactly 1 and reports the
\* new remaining count; in every other step a token that stays registered
\* keeps its count; download_count never exceeds max_downloads and
\* remaining_downloads never goes below 0.
C10_CountPerRedemption ==
    /\ [][\A id \in DOMAIN tokens :
            IF served'[id] # served[id]
            THEN /\ id \in DOMAIN tokens'
                 /\ response' = Response(id, 200, remaining_downloads(tokens'[id]), "file")
                 /\ tokens'[id].download_count = tokens[id].download_count + 1
                 /\ remaining_downloads(tokens'[id])
                      = remaining_downloads(tokens[id]) - 1
            ELSE id \in DOMAIN tokens'
                 => tokens'[id].download_count = tokens[id].download_count]_vars
    /\ [](\A id \in DOMAIN tokens :
            /\ tokens[id].download_count <= tokens[id].max_downloads
            /\ remaining_downloads(tokens[id]) >= 0
            /\ remaining_downloads(tokens[id])
                 = tokens[id].max_downloads - tokens[id].download_count)

\* C10 witness: the last allowed download of a token has just been served
C10_Witness ==
    /\ response.status = 200
    /\ response.remaining = 0
    /\ response.token \in DOMAIN tokens
    /\ tokens[response.token].download_count = DOWNLOAD_LINK_MAX_COUNT
    /\ tokens[response.token].max_downloads = DOWNLOAD_LINK_MAX_COUNT

C12_ReasonByCause ==
    [][(/\ now = 0
        /\ response.status = 410
        /\ info' # info
        /\ info'.token = response.token)
       => info'.reason = "exhausted"]_vars

\* C12 amended: GET /info/{token} reports valid:false with reason not_found
\* when the token is not in the active set (never issued, or removed by any
\* invalidation); for a token in the active set it reports expired when the
\* token is past its expiry (used up or not), exhausted when it is used up
\* and not past its expiry, and otherwise valid:true with the remaining count.
C12_InfoReason ==
    [][\A id \in TokenIds :
          HandleInfo(id)
          => IF id \notin DOMAIN tokens
             THEN info' = InfoBody(id, FALSE, "not_found", 0)
             ELSE IF now > tokens[id].expires_at
             THEN info' = InfoBody(id, FALSE, "expired", 0)
             ELSE IF tokens[id].download_count >= tokens[id].max_downloads
             THEN info' = InfoBody(id, FALSE, "exhausted", 0)
             ELSE info' = InfoBody(id, TRUE, "",
                                   tokens[id].max_downloads - tokens[id].download_count)]_vars

\* C12 witness: /info has reported expired for an active token that is both
\* past its expiry and used up
C12_Witness ==
    /\ info.token \in DOMAIN tokens
    /\ info.reason = "expired"
    /\ now > tokens[info.token].expires_at
    /\ tokens[info.token].download_count >= tokens[info.token].max_downloads

\* C13 as stated: an active token is valid exactly when now < expires_at and
\* download_count < max_downloads.  Violated at the instant now =
\* expires_at, where is_expired is still false.
C13_ValidIffBeforeExpiry ==
    \A id \in DOMAIN tokens :
        is_valid(tokens[id])
        <=> /\ now < tokens[id].expires_at
            /\ tokens[id].download_count < tokens[id].max_downloads

\* C13 amended: an active token is valid exactly when now <= expires_at and
\* download_count < max_downloads; at the instant now = expires_at a token
\* that is not used up is still valid.
C13_ValidUntilExpiry ==
    \A id \in DOMAIN tokens :
        is_valid(tokens[id])
        <=> /\ now <= tokens[id].expires_at
            /\ tokens[id].download_count < tokens[id].max_downloads

\* C13 witness: at the instant now = expires_at, /info has reported the
\* token valid
C13_Witness ==
    /\ info.token \in DOMAIN tokens
    /\ now = tokens[info.token].expires_at
    /\ info.valid
    /\ is_valid(tokens[info.token])

\* C14: in the state create_download_link(file, max_downloads = m) leaves,
\* GET /info for the new token answers valid:true with remaining_downloads =
\* m when m >= 1 was given and = DOWNLOAD_LINK_MAX_COUNT when it was omitted;
\* and a GET /info step gives exactly that answer.
C14_CreateThenInfo ==
    [][/\ \A path \in Paths, m \in MaxDownloadsArgs, id \in TokenIds :
             (CreateDownloadLink(path, m) /\ id = issued + 1)
             => InfoResponse(id)'
                  = InfoBody(id, TRUE, "",
                             IF m = None THEN DOWNLOAD_LINK_MAX_COUNT ELSE m)
       /\ \A id \in TokenIds :
             (HandleInfo(id) /\ id \in DOMAIN tokens
              /\ now + ExpireSeconds = tokens[id].expires_at
              /\ tokens[id].download_count = 0)
             => info' = InfoBody(id, TRUE, "", tokens[id].max_downloads)]_vars

\* C14 witness: a link was made with max_downloads = 1 and GET /info, with
\* no time passed and nothing downloaded, has reported valid with 1 remaining
C14_Witness ==
    /\ info.token \in DOMAIN tokens
    /\ info = InfoBody(info.token, TRUE, "", 1)
    /\ now + ExpireSeconds = tokens[info.token].expires_at
    /\ tokens[info.token].download_count = 0
    /\ tokens[info.token].max_downloads = 1

C16_DownloadOrder ==
    [][\A id \in TokenIds :
          HandleDownload(id)
          => /\ IF id \notin DOMAIN tokens
                THEN /\ response'.status = 404
                     /\ response'.text = "Download link not found"
                     /\ UNCHANGED << tokens, files >>
                ELSE IF now > tokens[id].expires_at
                THEN /\ response'.status = 410
                     /\ response'.text = "Download link has expired"
                     /\ tokens' = Pop(tokens, id)
                     /\ files' = files \ {tokens[id].file_path}
                ELSE IF tokens[id].download_count >= tokens[id].max_downloads
                THEN /\ response'.status = 410
                     /\ response'.text = "Download limit reached"
                     /\ tokens' = Pop(tokens, id)
                     /\ files' = files \ {tokens[id].file_path}
                ELSE IF tokens[id].file_path \notin files
                THEN /\ response'.status = 404
                     /\ response'.text = "File not found"
                     /\ tokens' = Pop(tokens, id)
                     /\ UNCHANGED files
                ELSE /\ response'.status = 200
                     /\ id \in DOMAIN tokens'
                     /\ UNCHANGED files
             /\ response'.status # 200
                => /\ served' = served
                   /\ \A x \in DOMAIN tokens' :
                         tokens'[x].download_count = tokens[x].download_count]_vars

\* C16 witness: a token that was both used up and past its expiry has been
\* answered 410 with the expiry text
C16_Witness ==
    /\ response.status = 410
    /\ response.text = "Download link has expired"
    /\ response.token \in TokenIds
    /\ served[response.token] = DOWNLOAD_LINK_MAX_COUNT
    /\ response.token \notin DOMAIN tokens

\* C17: while a delayed cleanup scheduled by a token's last download has not
\* come due, no step of the server other than an explicit invalidate_token
\* call of a client deletes that token's backing file.  Violated: a further
\* GET /download for the used-up token is answered 410 and deletes the file
\* at once; the sweep and stop() delete it as well.
C17_FileKeptDuringDelay ==
    [][\A c \in cleanups :
          (/\ c.token \in DOMAIN tokens
           /\ tokens[c.token].file_path \in files
           /\ now' < c.due
           /\ ~(\E id \in TokenIds : InvalidateToken(id)))
          => tokens[c.token].file_path \in files']_vars

\* C19: when stop() returns, the sweep task is not alive and every token
\* that was active with its file on disk is out of the active set, its file
\* deleted.  Violated: on a server that is not running (never started, or
\* stopped before) stop() returns at once and leaves the tokens created
\* meanwhile and their files.
C19_StopLeavesNothing ==
    [][(last_call' # last_call /\ last_call' \in {"stopped", "stop_noop"})
       => /\ cleanup_task' # "alive"
          /\ \A id \in DOMAIN tokens :
                tokens[id].file_path \in files
                => /\ id \notin DOMAIN tokens'
                   /\ tokens[id].file_path \notin files']_vars

\* the tokens a sweep must leave alone
ValidTokens == {id \in DOMAIN tokens : is_valid(tokens[id])}

PassedAuthorization(r) ==
    upload_req[r].pc = "multipart" \/ upload_req[r].status \in {415, 413}

\* C22 as stated: every POST /upload that declares a Content-Length above
\* UPLOAD_MAX_SIZE is answered 413.  Violated: a request that fails the
\* authorization check is answered 401, whatever length it declares.
C22_OversizeAlways413 ==
    [][\A r \in UploadIds, req \in BodyRequests :
          (UploadArrives(r, req) /\ req.content_length > UPLOAD_MAX_SIZE)
          => /\ upload_req'[r].status = 413
             /\ uploads' = uploads]_vars

\* C22 amended: the checks come in the order authorization (401), content
\* type (415), declared length (413), so a request is answered 413 for its
\* declared Content-Length when it is authorized and multipart, and 401
\* when it is not authorized, whatever length it declares; in both cases
\* nothing is written.  When the bytes streamed for the file part come to
\* exceed UPLOAD_MAX_SIZE the answer is 413 and the partial file is deleted,
\* the other files staying as they are.  No file on disk is ever larger than
\* UPLOAD_MAX_SIZE, and every file on disk is that of an upload in progress
\* or of one answered 200.
C22_OversizeRejected ==
    /\ [][\A r \in UploadIds, req \in BodyRequests :
            UploadArrives(r, req)
            => /\ (/\ is_upload_authorized(req) = "authorized"
                   /\ IsMultipart(req.content_type)
                   /\ req.content_length > UPLOAD_MAX_SIZE)
                  => upload_req'[r] = Done(413)
               /\ is_upload_authorized(req) = "unauthorized"
                  => upload_req'[r] = Done(401)
               /\ uploads' = uploads]_vars
    /\ [][\A r \in UploadIds, n \in ChunkSizes :
            (UploadChunk(r, n) /\ upload_req[r].size + n > UPLOAD_MAX_SIZE)
            => /\ upload_req'[r] = Done(413)
               /\ uploads' = Unlink(uploads, upload_req[r].target)
               /\ upload_req[r].target \notin DOMAIN uploads']_vars
    /\ [](\A t \in DOMAIN uploads :
            /\ uploads[t] <= UPLOAD_MAX_SIZE
            /\ \E r \in UploadIds :
                  /\ upload_req[r].target = t
                  /\ upload_req[r].pc = "streaming" \/ upload_req[r].status = 200)

\* C22 witness: a request was answered 413 while its file was being
\* written, and nothing is left on disk
C22_Witness ==
    /\ upload_req[1].status = 413
    /\ uuids = 1
    /\ uploads = << >>
    /\ upload_req[2].pc = "none"

\* the request carries the secret in one of the three places
CarriesSecret(req) ==
    \/ /\ Lower(req.authorization.scheme) = "bearer"
       /\ Strip(req.authorization.cred) = Strip(upload_token)
    \/ Strip(req.x_upload_token) = Strip(upload_token)
    \/ Strip(req.token) = Strip(upload_token)

\* C23, the part of it that every request other than one carrying the
\* secret is turned away: with a secret configured, a request that carries
\* the secret in none of the bearer Authorization header, X-Upload-Token and
\* the token query parameter does not pass the authorization check, is
\* answered 401, and nothing is written.  Violated: a token with a character
\* outside ASCII makes compare_digest raise TypeError, and the request is
\* answered 500.
C23_OthersGet401 ==
    [][\A r \in UploadIds, req \in UploadRequests :
          (/\ UploadArrives(r, req)
           /\ Strip(upload_token) # << >>
           /\ ~CarriesSecret(req))
          => /\ ~PassedAuthorization(r)'
             /\ upload_req'[r].status = 401
             /\ uploads' = uploads]_vars

\* the filename is one the sanitizer is to reject
RejectedName(filename) ==
    \/ "/" \in Range(filename)
    \/ "\\" \in Range(filename)
    \/ "NUL" \in Range(filename)
    \/ ":" \in Range(filename)
    \/ filename \in { << "." >>, << ".", "." >> }

\* C24: a file part whose filename contains a slash, a backslash, a null
\* byte or a colon, or is "." or "..", is answered 400 and nothing is
\* stored; a file that is stored has a name with no separator in it and a
\* uuid never used before.  Violated: Path(filename).name drops everything up
\* to the last slash before the checks run, so "d/a" is stored as "a", and
\* "." and "/" are stored as "upload".
C24_BadNamesRejected ==
    [][/\ \A r \in UploadIds, part \in Parts :
             (UploadField(r, part) /\ part.present /\ RejectedName(part.filename))
             => /\ upload_req'[r].status = 400
                /\ uploads' = uploads
       /\ \A t \in DOMAIN uploads' \ DOMAIN uploads :
             /\ "/" \notin Range(t.name)
             /\ "\\" \notin Range(t.name)
             /\ t.uuid > uuids]_vars

(***************************************************************************)
(* Properties of GET /info                                                 *)
(***************************************************************************)
\* C28: GET /info/{token} changes no server state: whatever the state of the
\* token (unknown, valid, expired, exhausted), the step leaves the token map
\* with every download_count, the files on disk, the pending cleanups and
\* the served counts as they were; an expired or exhausted token is still in
\* the map afterwards.
C28_InfoReadOnly ==
    [][\A id \in TokenIds :
          HandleInfo(id)
          => /\ UNCHANGED << tokens, files, cleanups, issued, served,
                             background_tasks, response >>
             /\ (id \in DOMAIN tokens /\ ~is_valid(tokens[id]))
                => (id \in DOMAIN tokens' /\ ~is_valid(tokens[id])')]_vars

\* C28 witness: GET /info has answered "exhausted" for a token that is still
\* in the map, with its count at the maximum and its file on disk
C28_Witness ==
    /\ info.token \in DOMAIN tokens
    /\ info = InfoBody(info.token, FALSE, "exhausted", 0)
    /\ is_exhausted(tokens[info.token])
    /\ tokens[info.token].file_path \in files

(***************************************************************************)
(* Further properties of the worker                                        *)
(***************************************************************************)
\* C29: every task whose status is COMPLETED or FAILED has a result, and its
\* status is COMPLETED exactly when that result has success = true and
\* FAILED exactly when it has success = false.
C29_StatusMatchesResult ==
    \A t \in Created :
       tasks[t].status \in Terminal
       => /\ tasks[t].result.isset
          /\ tasks[t].status = "COMPLETED" <=> tasks[t].result.success
          /\ tasks[t].status = "FAILED" <=> ~tasks[t].result.success

\* C29 witness: one task ended COMPLETED on a successful result, one FAILED
\* on an unsuccessful result the adapter returned, one FAILED on a raise
C29_Witness ==
    \E a, b, c \in Created :
       /\ tasks[a].status = "COMPLETED" /\ tasks[a].result.success
       /\ tasks[b].status = "FAILED" /\ ~tasks[b].result.success
       /\ adapter_outcome[b].kind = "returned"
       /\ tasks[c].status = "FAILED" /\ ~tasks[c].result.success
       /\ adapter_outcome[c].kind = "raised"

(***************************************************************************)
(* Properties of the post-download callback                                *)
(***************************************************************************)
\* C30: a download request adds one run to the tracked set when it is
\* answered 200 and a callback is registered, and none otherwise; the set
\* changes in no other way than by such a request or by a run ending, which
\* removes that run; the end of a run, whether it returned or raised, leaves
\* the last response, the token map, the files and the served counts as
\* they were.
C30_CallbackScheduling ==
    [][/\ \A id \in TokenIds :
             HandleDownload(id)
             => background_tasks' =
                   IF download_callback /\ response'.status = 200
                   THEN background_tasks + 1
                   ELSE background_tasks
       /\ DownloadCallbackDone
          => /\ background_tasks' = background_tasks - 1
             /\ UNCHANGED << response, tokens, files, served, cleanups >>
       /\ background_tasks' # background_tasks
          => \/ DownloadCallbackDone
             \/ \E id \in TokenIds : HandleDownload(id)]_vars

\* C30 witness: with a callback registered, the one download of a link was
\* served and its callback run is still in the set after a second request
\* for the link was answered 410
C30_Witness ==
    /\ download_callback
    /\ background_tasks = 1
    /\ response.status = 410
    /\ \E id \in TokenIds : served[id] = 1

(***************************************************************************)
(* Properties of URLParser.parse                                           *)
(***************************************************************************)
\* some pattern of the i-th service matches the text
ServiceMatches(i, text) ==
    \E j \in 1..Len(PATTERNS[i].patterns) : Matches(PATTERNS[i].patterns[j], text)

\* C25: parse returns for every string one of the services or UNKNOWN; it
\* returns service S exactly when some pattern of S matches the trimmed
\* string at its start, whatever the case of its letters, and UNKNOWN
\* exactly when no pattern matches; no trimmed string is matched by patterns
\* of two services.
C25_ParseClassifies ==
    /\ parse_ret # NoReturn
       => /\ parse_ret \in {PATTERNS[i].service : i \in 1..Len(PATTERNS)} \cup {"UNKNOWN"}
          /\ \A i \in 1..Len(PATTERNS) :
                parse_ret = PATTERNS[i].service
                <=> ServiceMatches(i, Strip(parse_arg))
          /\ parse_ret = "UNKNOWN" <=> ~Classified(Strip(parse_arg))
    /\ \A i, k \in 1..Len(PATTERNS) :
          (ServiceMatches(i, Strip(parse_arg)) /\ ServiceMatches(k, Strip(parse_arg)))
          => i = k

\* C25 witness: parse has returned YOUTUBE for a URL written in upper case
\* with whitespace before and after it
C25_Witness ==
    /\ parse_arg = << " " >> \o Url("HTTP", "YOUTU.BE", << "/" >>) \o << " " >>
    /\ parse_ret = "YOUTUBE"

(***************************************************************************)
(* Properties of the adapters                                              *)
(***************************************************************************)
\* C26: whatever the adapter, the wait on the external work has a timeout;
\* when the timeout expires the process is killed and, once it is reaped,
\* the task ends FAILED with the timeout error.  Violated: the Qobuz
\* adapter awaits handle_url in the executor with no timeout.
C26_WaitBounded ==
    /\ [](proc.state = "running" => proc.timeout # None)
    /\ [][WaitTimesOut => proc'.state = "killed"]_vars
    /\ [][ProcessReaped
          => /\ proc' = NoProc
             /\ tasks'[worker_task.task].status = "FAILED"
             /\ tasks'[worker_task.task].result = TimeoutResult]_vars

C32_History ==
    /\ [](/\ \A t \in Created :
                tasks[t].status \in Terminal <=> t \in Range(history)
          /\ \A i, j \in DOMAIN history : history[i] = history[j] => i = j)
    /\ [][\/ history' = history
          \/ \E t \in Created :
                /\ history' = Append(history, t)
                /\ tasks[t].status \notin Terminal
                /\ tasks'[t].status \in Terminal]_vars

\* C32 witness: the first task has ended FAILED and the second COMPLETED,
\* the history is << 1, 2 >>, and a third task is RUNNING
C32_Witness ==
    /\ history = << 1, 2 >>
    /\ tasks[1].status = "FAILED"
    /\ tasks[2].status = "COMPLETED"
    /\ \E t \in Created : tasks[t].status = "RUNNING"

\* C33: in every state the pending list is the queue's content in FIFO
\* order, every task in it has status PENDING and there are at most
\* QUEUE_MAX_SIZE of them; the current task, when there is one, has status
\* RUNNING and is not in the pending list; get_queue_info returns the
\* pending list and the current task of that moment, and emptying the
\* returned list leaves the pending list, the queue and the tasks as they
\* were.
C33_PendingIsQueue ==
    /\ [](/\ pending_tasks = queue
          /\ \A i \in DOMAIN pending_tasks : tasks[pending_tasks[i]].status = "PENDING"
          /\ Len(pending_tasks) <= QUEUE_MAX_SIZE
          /\ current_task # None
             => /\ tasks[current_task].status = "RUNNING"
                /\ ~InList(pending_tasks, current_task))
    /\ [][GetQueueInfo
          => /\ queue_info'.pending = pending_tasks
             /\ get_queue_info.current = current_task
             /\ UNCHANGED qvars]_vars
    /\ [][MutateInfo => UNCHANGED << pending_tasks, queue, tasks, current_task >>]_vars

\* C33 witness: a caller holds the list get_queue_info gave it when the
\* queue was full, and the worker has since taken the first of those tasks
C33_Witness ==
    /\ queue_info.ref = "copy"
    /\ Len(queue_info.pending) = QUEUE_MAX_SIZE
    /\ current_task = Head(queue_info.pending)
    /\ Len(pending_tasks) = QUEUE_MAX_SIZE - 1

\* C34: when the progress callback raises, at the RUNNING notification or
\* at the terminal one, the worker loop goes on, and no worker that has
\* ended leaves the task it was handling RUNNING.  Violated: both awaits
\* of the callback are outside the try block, so the exception ends _worker.
C34_CallbackFaultTolerated ==
    /\ [][ProgressCallbackRaises => worker_task'.state = "alive"]_vars
    /\ [](worker_task.state = "failed"
          => tasks[worker_task.task].status # "RUNNING")

\* C35: every task add_task has admitted eventually has status COMPLETED or
\* FAILED, whatever stop_worker and start_worker calls are made, as long as
\* a worker is started again and adapter calls return.  Violated: a task
\* whose download stop_worker interrupts stays RUNNING for ever, and
\* current_task with it.
C35_EveryTaskEnds ==
    \A t \in TaskIds :
        (t \in Created) ~> (t \in Created /\ tasks[t].status \in Terminal)

(***************************************************************************)
(* Further properties of the file server                                   *)
(***************************************************************************)
\* C36: whenever is_running is true and no stop() is under way, the listener
\* is bound and the sweep task is alive; start() on a running server changes
\* nothing; after a start() that failed to bind the server is not running.
\* Violated: _runner is assigned before setup() and site.start() are
\* awaited and is not reset when they raise.
C36_RunningMeansServing ==
    /\ []((is_running /\ ~stopping) => (site /\ cleanup_task = "alive"))
    /\ [][(Start /\ is_running)
          => UNCHANGED << runner, site, cleanup_task, sweep_due, tokens, files >>]_vars
    /\ [][StartFails => ~is_running']_vars

\* C37: once stop_worker has cancelled a worker whose adapter was waiting
\* on an external process, that process is gone: no process started by an
\* adapter is running without a worker that waits for it.  Violated:
\* run_command does not kill the process when it is cancelled.
C37_NoOrphanProcess == orphans.process = 0

(***************************************************************************)
(* Uploads when no secret is configured                                    *)
(***************************************************************************)

\* C38: when Config.UPLOAD_TOKEN is not set (the default, the empty string),
\* empty or only whitespace, every POST /upload passes the authorization
\* check whatever it carries in the Authorization header, in X-Upload-Token
\* and in the token query parameter: it is answered neither 401 nor 500,
\* and what becomes of it is decided by its content type and declared
\* length alone.
C38_OpenWithoutSecret ==
    [][\A r \in UploadIds, req \in UploadRequests :
          (Strip(upload_token) = << >> /\ UploadArrives(r, req))
          => /\ PassedAuthorization(r)'
             /\ upload_req'[r].status \notin {401, 500}
             /\ upload_req'[r].status =
                   (IF ~IsMultipart(req.content_type) THEN 415
                    ELSE IF /\ req.content_length # NoLength
                            /\ req.content_length > UPLOAD_MAX_SIZE THEN 413
                    ELSE 0)]_vars

\* C38 witness: the secret is a blank, and a request was let through to the
\* reading of its body
C38_Witness ==
    /\ upload_token = << " " >>
    /\ upload_req[1].pc = "multipart"

(***************************************************************************)
(* Properties of the notification of a completed task                      *)
(***************************************************************************)
\* the archive the handler wrote belongs to the token the handler made
Owned ==
    /\ notify.link # None
    /\ notify.link \in DOMAIN tokens
    /\ tokens[notify.link].file_path = notify.path

====
